---- MODULE Spec2Model ----
(***************************************************************************)
(* Conversation graph engine of LearningThreeMap-AI: the node/edge/message *)
(* tables of the backend, the command handlers that mutate them            *)
(* (CreateExchange, EditNode, DeleteNode, GetGraph), the join-respecting   *)
(* subtree deletion, the AI retry boundary and the draft serializer of the *)
(* frontend.                                                               *)
(***************************************************************************)
EXTENDS Integers, Sequences, FiniteSets, TLC

\* ---------------------------------------------------------------- bounds
\* The node and message ids handed out (crypto.randomUUID in the code, a
\* counter here). An exchange takes two of each and is created only while
\* one more is left after it, so that its question can still be edited; an
\* edit takes one of each.
MaxNodes == 7
MaxMsgs == 7
MaxIoNodes == 4

\* ------------------------------------------------------------ input sets
Convs == {1}
\* The texts a new question and an edited question are drawn from.
NewContents == {"q1"}
Contents == {"q1", "q2"}
Null == 0

\* A context_ranges value: SQL NULL / JS null, or an array of ContextRange.
NullRanges == [isNull |-> TRUE, val |-> <<>>]
SomeRanges == [isNull |-> FALSE, val |-> <<[sourceNodeId |-> 1, startPos |-> 0, endPos |-> 2]>>]
RangeInputs == {NullRanges, SomeRanges}

\* Outcome of the two possible Gemini attempts of one command:
\* no API key configured, first attempt succeeds, first fails and the
\* retry succeeds, both fail.
AiOutcomes == {"nokey", "ok1", "ok2", "fail"}

\* The largest fromNodeIds list a request carries.
MaxFrom == 2
\* The history specification: graphs of at most MaxAncNodes nodes, seed
\* lists of at most MaxSeeds ids, the limits 0, MaxLimit and the routes' 20.
MaxAncNodes == 6
MaxSeeds == 2
MaxLimit == 2
\* The layout specification: at most MaxRects rendered nodes and MaxDrafts
\* drafts placed one after the other.
MaxRects == 8
MaxDrafts == 1
\* The pending-context specification: at most MaxEntries attach calls on
\* one draft.
MaxEntries == 2

\* The highlight specification: an answer of at most MaxSrc characters in
\* at most two text nodes, a quoted text of at most MaxHl characters.
MaxSrc == 3
MaxHl == 3

\* The selection specification: graphs of at most MaxSelNodes nodes built
\* from the canvas, and at most MaxSelected pairs selected for one delete.
MaxSelNodes == 8
MaxSelected == 2

\* The position-saver specification: at most MaxCalls updateNodePositions
\* calls.
MaxCalls == 2

\* The two-conversation specification: at most MaxConvNodes nodes in all.
MaxConvNodes == 4

\* An id no node has: the SELECTs treat every such id alike, so requests
\* name the ids of the nodes there are, and this one.
AbsentId == MaxNodes + 1

VARIABLES nodes, edges, messages, nextNode, nextMsg, resp, dom, ser,
          inflight, rd, obs, hist, place, pend, loc, saver

\* The backend's tables, id sources and last answer.
backend == <<nodes, edges, messages, nextNode, nextMsg, resp>>

\* The draft editor of the frontend: its child nodes and what the last
\* serializeContent returned.
editor == <<dom, ser>>

\* Requests taken statement by statement: the command that is writing, the
\* getGraph that is reading, and the graph the last getGraph returned.
requests == <<inflight, rd, obs>>

\* What the pure helpers were last asked and what they returned: hist for
\* listMessagesForNodeAncestors, place for findFreePositionAABB; and the
\* frontend's state outside the editor's content: pend the draft's pending
\* contexts, loc the highlight search, saver the pending node positions.
views == <<hist, place, pend, loc, saver>>

vars == <<nodes, edges, messages, nextNode, nextMsg, resp, dom, ser,
          inflight, rd, obs, hist, place, pend, loc, saver>>

\* ------------------------------------------------------------ helpers
Min(S) == CHOOSE x \in S : \A y \in S : x <= y

RECURSIVE SortedSeq(_)
SortedSeq(S) == IF S = {} THEN <<>> ELSE <<Min(S)>> \o SortedSeq(S \ {Min(S)})

Range(s) == {s[i] : i \in DOMAIN s}

Perms(S) == {s \in [1..Cardinality(S) -> S] : Range(s) = S}

\* The database a sequence of writes ends in.
Final(db, writes) == IF writes = <<>> THEN db ELSE writes[Len(writes)]

\* The database as one value: rows of the nodes, edges and messages tables.
DB == [nodes |-> nodes, edges |-> edges, messages |-> messages]

\* ------------------------------------------------- db-helpers (rows)
\* createMessage + insertMessage: the INSERT binds id, conversation_id,
\* author, content and created_at only; the context_ranges column is not
\* written and keeps its DEFAULT NULL, whatever the caller supplied. at is
\* what new Date().toISOString() read when createMessage ran.
insertMessage(db, id, conv, author, content, ranges, at) ==
  [db EXCEPT !.messages = [m \in DOMAIN db.messages \cup {id} |->
     IF m = id
       THEN [conv |-> conv, author |-> author, content |-> content,
             context_ranges |-> NullRanges, created_at |-> at]
       ELSE db.messages[m]]]

\* createNode + insertNode
insertNode(db, id, conv, messageId, type, label) ==
  [db EXCEPT !.nodes = [n \in DOMAIN db.nodes \cup {id} |->
     IF n = id
       THEN [conv |-> conv, type |-> type, label |-> label, message_id |-> messageId]
       ELSE db.nodes[n]]]

\* createEdge + insertEdge
insertEdge(db, conv, source, target) ==
  [db EXCEPT !.edges = @ \cup {[conv |-> conv, source |-> source, target |-> target]}]

\* fetchGraphStructure: the node ids and the edges of one conversation.
fetchNodes(db, conv) == {n \in DOMAIN db.nodes : db.nodes[n].conv = conv}
fetchEdges(db, conv) == {e \in db.edges : e.conv = conv}

\* ------------------------------------------------- SubtreeDeletion
\* outgoing.get(current): the targets of current's edges.
outgoing(E, current) == {e.target : e \in {x \in E : x.source = current}}

\* incomingCount.get(child) ?? 0
incomingCount(E, child) == Cardinality({e \in E : e.target = child})

\* pushedChildren without the in-degree test: descends into joins too.
pushedChildrenIgnoringJoins(E, current, toDelete) ==
  {c \in outgoing(E, current) : c \notin toDelete}

\* pushedChildren with the test off by one: descends into no child at all.
pushedChildrenNoDescent(E, current, toDelete) ==
  {c \in outgoing(E, current) : ~(incomingCount(E, c) >= 1) /\ c \notin toDelete}

\* The children of current that the loop pushes: in-degree not above 1 and
\* not yet in the delete set.
pushedChildren(E, current, toDelete) ==
  {c \in outgoing(E, current) : ~(incomingCount(E, c) > 1) /\ c \notin toDelete}

\* The while loop over the stack (stack.pop() takes the last element).
RECURSIVE deleteLoop(_, _, _)
deleteLoop(E, stack, toDelete) ==
  IF stack = <<>> THEN toDelete
  ELSE LET current == stack[Len(stack)]
           rest == SubSeq(stack, 1, Len(stack) - 1)
       IN IF current \in toDelete
            THEN deleteLoop(E, rest, toDelete)
            ELSE deleteLoop(E,
                            rest \o SortedSeq(pushedChildren(E, current, toDelete)),
                            toDelete \cup {current})

\* deleteSet taking a root that is not a node of the conversation for
\* every node of it.
deleteSetAllWhenAbsent(db, conv, rootNodeId) ==
  IF rootNodeId \notin fetchNodes(db, conv) THEN fetchNodes(db, conv)
  ELSE deleteLoop(fetchEdges(db, conv), <<rootNodeId>>, {})

\* deleteSet that spares a root with more than one incoming edge.
deleteSetSparingJoinRoot(db, conv, rootNodeId) ==
  IF rootNodeId \notin fetchNodes(db, conv) THEN {}
  ELSE IF incomingCount(fetchEdges(db, conv), rootNodeId) > 1 THEN {}
  ELSE deleteLoop(fetchEdges(db, conv), <<rootNodeId>>, {})

\* The delete set of deleteNodeSubtreeRespectingJoins: empty when the
\* conversation has no nodes or the root is not one of them.
deleteSet(db, conv, rootNodeId) ==
  IF rootNodeId \notin fetchNodes(db, conv) THEN {}
  ELSE deleteLoop(fetchEdges(db, conv), <<rootNodeId>>, {})

\* DELETE FROM messages: the rows go, and nodes.message_id falls back to
\* NULL (FOREIGN KEY ... ON DELETE SET NULL).
deleteMessages(db, conv, ids) ==
  LET gone == {m \in DOMAIN db.messages : m \in ids /\ db.messages[m].conv = conv}
  IN [db EXCEPT
        !.messages = [m \in DOMAIN db.messages \ gone |-> db.messages[m]],
        !.nodes = [n \in DOMAIN db.nodes |->
                     IF db.nodes[n].message_id \in gone
                       THEN [db.nodes[n] EXCEPT !.message_id = Null]
                       ELSE db.nodes[n]]]

\* deleteNodes with the edges left as they are (no cascade).
deleteNodesNoCascade(db, conv, ids) ==
  LET gone == {n \in DOMAIN db.nodes : n \in ids /\ db.nodes[n].conv = conv}
  IN [db EXCEPT !.nodes = [n \in DOMAIN db.nodes \ gone |-> db.nodes[n]]]

\* DELETE FROM nodes: the rows go, and so does every edge whose source or
\* target they were (FOREIGN KEY ... ON DELETE CASCADE).
deleteNodes(db, conv, ids) ==
  LET gone == {n \in DOMAIN db.nodes : n \in ids /\ db.nodes[n].conv = conv}
  IN [db EXCEPT
        !.nodes = [n \in DOMAIN db.nodes \ gone |-> db.nodes[n]],
        !.edges = {e \in db.edges : e.source \notin gone /\ e.target \notin gone}]

\* The writes of deleteNodeSubtreeRespectingJoins once the delete set del
\* is final, one database per awaited statement: the messages of the
\* delete set, then its node rows.
deleteWrites(db, conv, del) ==
  LET messageIds == {db.nodes[n].message_id : n \in del} \ {Null}
      db1 == IF messageIds # {} THEN deleteMessages(db, conv, messageIds) ELSE db
  IN (IF messageIds # {} THEN <<db1>> ELSE <<>>)
     \o (IF del # {} THEN <<deleteNodes(db1, conv, del)>> ELSE <<>>)

\* deleteNodeSubtreeRespectingJoins: its writes, the database afterwards
\* and the returned deletedNodeIds.
deleteNodeSubtreeRespectingJoins(db, conv, rootNodeId) ==
  LET del == deleteSet(db, conv, rootNodeId)
      ws == deleteWrites(db, conv, del)
  IN [db |-> Final(db, ws), writes |-> ws, deletedNodeIds |-> del]

\* ------------------------------------------------- GetGraph
\* JSON.parse of the context_ranges column; a NULL column gives null.
parseContextRanges(json) == IF json.isNull THEN NullRanges ELSE json

\* getGraph: the node rows LEFT JOINed with their message's context_ranges,
\* and the edge rows, of one conversation.
getGraph(db, conv) ==
  [nodes |-> [n \in fetchNodes(db, conv) |->
                [type |-> db.nodes[n].type,
                 label |-> db.nodes[n].label,
                 message_id |-> db.nodes[n].message_id,
                 context_ranges |->
                   IF db.nodes[n].message_id \in DOMAIN db.messages
                     THEN parseContextRanges(db.messages[db.nodes[n].message_id].context_ranges)
                     ELSE NullRanges]],
   edges |-> fetchEdges(db, conv)]

EmptyGraph == [nodes |-> <<>>, edges |-> {}]

\* ------------------------------------------------- AI boundary
\* generateAIResponse retrying twice: a third attempt after two failures.
generateAIResponseThreeTries(outcome) ==
  IF outcome = "ok1" THEN [ok |-> TRUE, attempts |-> 1]
  ELSE IF outcome = "ok2" THEN [ok |-> TRUE, attempts |-> 2]
  ELSE [ok |-> FALSE, attempts |-> 3]

\* generateAIResponse: one call, and one retry after a failure. outcome
\* tells which of the attempts the external service answers.
generateAIResponse(outcome) ==
  IF outcome = "ok1" THEN [ok |-> TRUE, attempts |-> 1]
  ELSE IF outcome = "ok2" THEN [ok |-> TRUE, attempts |-> 2]
  ELSE [ok |-> FALSE, attempts |-> 2]

\* The route's AI step: the echo fallback without an API key (no external
\* call), generateAIResponse with one.
aiStep(outcome) ==
  IF outcome = "nokey" THEN [ok |-> TRUE, attempts |-> 0]
  ELSE generateAIResponse(outcome)

\* ------------------------------------------------- CreateExchange
\* The SELECT without its conversation_id condition.
prevNodeIdsAnyConversation(db, conv, fromNodeIds) == fromNodeIds \cap DOMAIN db.nodes

\* SELECT id FROM nodes WHERE conversation_id = ? AND id IN (fromNodeIds)
prevNodeIds(db, conv, fromNodeIds) == fromNodeIds \cap fetchNodes(db, conv)

\* SELECT * FROM nodes WHERE id = draftNodeId AND conversation_id = ?
existingDraft(db, conv, draftNodeId) ==
  draftNodeId # Null /\ draftNodeId \in fetchNodes(db, conv)

\* createdEdges without the userNodeIsNew test: edges into a reused node.
createdEdgesIntoReused(conv, prev, userNodeIsNew, userId, aiId) ==
  {[conv |-> conv, source |-> p, target |-> userId] : p \in prev}
  \cup {[conv |-> conv, source |-> userId, target |-> aiId]}

\* The edges createMessageWithAI inserts: from every previous node to the
\* user node when that node is new, and from the user node to the AI node.
createdEdges(conv, prev, userNodeIsNew, userId, aiId) ==
  (IF userNodeIsNew
     THEN {[conv |-> conv, source |-> p, target |-> userId] : p \in prev}
     ELSE {})
  \cup {[conv |-> conv, source |-> userId, target |-> aiId]}

\* UPDATE nodes SET message_id = ?, label = ? WHERE id = draftNodeId
updateDraftNode(db, draftNodeId, messageId, content) ==
  [db EXCEPT !.nodes[draftNodeId].message_id = messageId,
             !.nodes[draftNodeId].label = content]

\* The for loop over prevNodeIds: one insertEdge per previous node.
RECURSIVE insertEdgesFrom(_, _, _, _)
insertEdgesFrom(db, conv, prev, userId) ==
  IF prev = <<>> THEN <<>>
  ELSE LET db1 == insertEdge(db, conv, Head(prev), userId)
       IN <<db1>> \o insertEdgesFrom(db1, conv, Tail(prev), userId)

\* The writes of createMessageWithAI, one database per awaited statement;
\* nn and nm are the next fresh node and message ids (crypto.randomUUID
\* never repeats). The clock is read twice in a row, for the user message
\* and for the ai message: the millisecond is the same one (sameMs) or the
\* next; a later command reads a later time, so the message counter serves
\* as the clock.
createWrites(db, nn, nm, conv, content, fromNodeIds, aiContent, draftNodeId, ranges, sameMs) ==
  LET userMsg == nm
      aiMsg == nm + 1
      db1 == insertMessage(db, userMsg, conv, "user", content, ranges, nm)
      db2 == insertMessage(db1, aiMsg, conv, "ai", aiContent, NullRanges,
                           IF sameMs THEN nm ELSE nm + 1)
      prev == prevNodeIds(db2, conv, fromNodeIds)
      reuse == existingDraft(db2, conv, draftNodeId)
      userId == IF reuse THEN draftNodeId ELSE nn
      aiId == IF reuse THEN nn ELSE nn + 1
      db3 == IF reuse THEN updateDraftNode(db2, draftNodeId, userMsg, content)
             ELSE insertNode(db2, userId, conv, userMsg, "user", content)
      db4 == insertNode(db3, aiId, conv, aiMsg, "ai", aiContent)
      newEdges == createdEdges(conv, prev, ~reuse, userId, aiId)
      toUser == SortedSeq({e.source : e \in {x \in newEdges : x.target = userId}})
      edgeWrites == insertEdgesFrom(db4, conv, toUser, userId)
      db5 == Final(db4, edgeWrites)
  IN <<db1, db2, db3, db4>> \o edgeWrites
     \o <<[db5 EXCEPT !.edges = @ \cup {x \in newEdges : x.target = aiId}]>>

\* createMessageWithAI: the database afterwards and the returned delta.
createMessageWithAI(db, nn, nm, conv, content, fromNodeIds, aiContent, draftNodeId, ranges, sameMs) ==
  LET reuse == existingDraft(db, conv, draftNodeId)
      userId == IF reuse THEN draftNodeId ELSE nn
      aiId == IF reuse THEN nn ELSE nn + 1
  IN [db |-> Final(db, createWrites(db, nn, nm, conv, content, fromNodeIds,
                                    aiContent, draftNodeId, ranges, sameMs)),
      userNode |-> userId, aiNode |-> aiId,
      newNodes |-> IF reuse THEN {aiId} ELSE {userId, aiId},
      newEdges |-> createdEdges(conv, prevNodeIds(db, conv, fromNodeIds), ~reuse,
                                userId, aiId),
      nextNode |-> aiId + 1, nextMsg |-> nm + 2]

\* ------------------------------------------------- EditNode
\* SELECT target FROM edges WHERE conversation_id = ? AND source = ?
childrenOf(db, conv, nodeId) ==
  {e.target : e \in {x \in fetchEdges(db, conv) : x.source = nodeId}}

\* The for loop over the children: one subtree deletion per child, in the
\* order the rows came back. writes are the databases after each awaited
\* statement; log collects each call's root, result and the edges it
\* started from.
RECURSIVE deleteChildren(_, _, _, _, _)
deleteChildren(db, conv, children, writes, log) ==
  IF children = <<>> THEN [db |-> db, writes |-> writes, deletes |-> log]
  ELSE LET r == deleteNodeSubtreeRespectingJoins(db, conv, Head(children))
       IN deleteChildren(r.db, conv, Tail(children),
            writes \o r.writes,
            Append(log, [root |-> Head(children),
                         deletedNodeIds |-> r.deletedNodeIds,
                         edges |-> db.edges]))

\* editable without the test of the node's type.
editableWhateverType(db, conv, nodeId) == nodeId \in fetchNodes(db, conv)

\* The guard of editUserNodeContent: the node exists in the conversation
\* and is a user node.
editable(db, conv, nodeId) ==
  nodeId \in fetchNodes(db, conv) /\ db.nodes[nodeId].type = "user"

\* UPDATE messages SET content = ? WHERE id = node.message_id
updateMessageContent(db, conv, messageId, content) ==
  IF messageId \in DOMAIN db.messages /\ db.messages[messageId].conv = conv
    THEN [db EXCEPT !.messages[messageId].content = content]
    ELSE db

\* editUserNodeContent without step 5: the children are left in place.
editWithoutCascade(db, conv, nodeId, newContent, order) ==
  LET db2 == [db EXCEPT !.nodes[nodeId].label = newContent]
  IN [db |-> db2, writes |-> <<db2>>, deletes |-> <<>>]

\* editUserNodeContent past its guard: message and label rewritten, then
\* the children's subtrees deleted.
editUserNodeContent(db, conv, nodeId, newContent, order) ==
  LET hasMsg == db.nodes[nodeId].message_id # Null
      db1 == IF hasMsg
               THEN updateMessageContent(db, conv, db.nodes[nodeId].message_id, newContent)
               ELSE db
      db2 == [db1 EXCEPT !.nodes[nodeId].label = newContent]
  IN deleteChildren(db2, conv, order,
                    (IF hasMsg THEN <<db1>> ELSE <<>>) \o <<db2>>, <<>>)

\* The writes of addAiResponseNode: message, node, edge.
addAiWrites(db, nn, nm, conv, parentNodeId, aiContent) ==
  LET db1 == insertMessage(db, nm, conv, "ai", aiContent, NullRanges, nm)
      db2 == insertNode(db1, nn, conv, nm, "ai", aiContent)
  IN <<db1, db2, insertEdge(db2, conv, parentNodeId, nn)>>

\* addAiResponseNode
addAiResponseNode(db, nn, nm, conv, parentNodeId, aiContent) ==
  Final(db, addAiWrites(db, nn, nm, conv, parentNodeId, aiContent))

\* ------------------------------------------------- AncestorResolver
\* The limit both routes pass to listMessagesForNodeAncestors.
HistoryLimit == 20

\* incoming.get(current): the sources of the edges into current.
incoming(E, current) == {e.source : e \in {x \in E : x.target = current}}

\* pushedParents along the edges' direction: the children, not the parents.
pushedParentsForward(E, current, visited) ==
  {c \in outgoing(E, current) : c \notin visited}

\* The parents of current that the loop pushes: those not yet visited.
pushedParents(E, current, visited) == {p \in incoming(E, current) : p \notin visited}

\* ancestorLoop with the walk ending, not continuing, at an id popped a
\* second time.
RECURSIVE ancestorLoopReturnOnVisited(_, _, _)
ancestorLoopReturnOnVisited(E, stack, visited) ==
  IF stack = <<>> THEN visited
  ELSE LET current == stack[Len(stack)]
           rest == SubSeq(stack, 1, Len(stack) - 1)
       IN IF current \in visited
            THEN visited
            ELSE ancestorLoopReturnOnVisited(E,
                   rest \o SortedSeq(pushedParents(E, current, visited \cup {current})),
                   visited \cup {current})

\* The while loop over the stack, which starts as a copy of fromNodeIds
\* (stack.pop() takes the last element). ancestorNodeIds holds the visited
\* ids in visiting order; only its members are used afterwards.
RECURSIVE ancestorLoop(_, _, _)
ancestorLoop(E, stack, visited) ==
  IF stack = <<>> THEN visited
  ELSE LET current == stack[Len(stack)]
           rest == SubSeq(stack, 1, Len(stack) - 1)
       IN IF current \in visited
            THEN ancestorLoop(E, rest, visited)
            ELSE ancestorLoop(E,
                   rest \o SortedSeq(pushedParents(E, current, visited \cup {current})),
                   visited \cup {current})

\* messageIds: the message_id of every visited id that is a node of the
\* conversation and has one.
ancestorMessageIds(db, conv, ancestorNodeIds) ==
  {db.nodes[n].message_id : n \in ancestorNodeIds \cap fetchNodes(db, conv)} \ {Null}

\* SELECT ... FROM messages WHERE conversation_id = ? AND id IN (messageIds)
selectMessages(db, conv, messageIds) ==
  {m \in messageIds \cap DOMAIN db.messages : db.messages[m].conv = conv}

\* The row ORDER BY created_at ASC puts first. SQL leaves the order of rows
\* with equal created_at to the engine; tie says which way it takes the
\* primary keys of such rows, the same way in every query.
firstRow(db, rows, tie) ==
  CHOOSE m \in rows :
    \A o \in rows \ {m} :
      \/ db.messages[m].created_at < db.messages[o].created_at
      \/ /\ db.messages[m].created_at = db.messages[o].created_at
         /\ IF tie = "idAsc" THEN m < o ELSE m > o

\* ORDER BY created_at DESC
RECURSIVE orderByCreatedAtDesc(_, _, _)
orderByCreatedAtDesc(db, rows, tie) ==
  IF rows = {} THEN <<>>
  ELSE LET m == firstRow(db, rows, tie)
       IN orderByCreatedAtDesc(db, rows \ {m}, tie) \o <<m>>

\* ORDER BY created_at ASC
RECURSIVE orderByCreatedAt(_, _, _)
orderByCreatedAt(db, rows, tie) ==
  IF rows = {} THEN <<>>
  ELSE LET m == firstRow(db, rows, tie)
       IN <<m>> \o orderByCreatedAt(db, rows \ {m}, tie)

\* results.slice(0, limit): the head in place of the tail.
headSlice(results, limit) ==
  IF Len(results) <= limit THEN results ELSE SubSeq(results, 1, limit)

\* results when results.length <= limit, else
\* results.slice(results.length - limit).
tailSlice(results, limit) ==
  IF Len(results) <= limit THEN results
  ELSE SubSeq(results, Len(results) - limit + 1, Len(results))

\* listMessagesForNodeAncestors giving up on a seed that is not a node of
\* the conversation.
listMessagesForKnownSeeds(db, conv, fromNodeIds, limit, tie) ==
  IF fromNodeIds = <<>> THEN <<>>
  ELSE IF ~(Range(fromNodeIds) \subseteq fetchNodes(db, conv)) THEN <<>>
  ELSE LET ancestorNodeIds == ancestorLoop(fetchEdges(db, conv), fromNodeIds, {})
           messageIds == ancestorMessageIds(db, conv, ancestorNodeIds)
       IN IF messageIds = {} THEN <<>>
          ELSE tailSlice(orderByCreatedAt(db, selectMessages(db, conv, messageIds), tie),
                         limit)

\* listMessagesForNodeAncestors: the ids of the returned message rows, in
\* the returned order.
listMessagesForNodeAncestors(db, conv, fromNodeIds, limit, tie) ==
  IF fromNodeIds = <<>> THEN <<>>
  ELSE IF fetchNodes(db, conv) = {} THEN <<>>
  ELSE LET ancestorNodeIds == ancestorLoop(fetchEdges(db, conv), fromNodeIds, {})
           messageIds == ancestorMessageIds(db, conv, ancestorNodeIds)
       IN IF messageIds = {} THEN <<>>
          ELSE tailSlice(orderByCreatedAt(db, selectMessages(db, conv, messageIds), tie),
                         limit)

\* ------------------------------------------------- NodePlacement
\* Coordinates are JavaScript numbers; the model keeps them in tenths of a
\* pixel, which holds the halves of centerX and centerY exactly and the
\* diagonal spiral candidates to a tenth of a pixel.
Scale == 10

DEFAULT_NODE_WIDTH == 320
DEFAULT_NODE_HEIGHT == 180
NODE_SPACING == 40

Px(n) == n * Scale
Spacing == Px(NODE_SPACING)

\* A NodeRect and a size given in pixels.
Rect(x, y, width, height) ==
  [x |-> Px(x), y |-> Px(y), width |-> Px(width), height |-> Px(height)]
Dims(width, height) == [width |-> Px(width), height |-> Px(height)]

Max(a, b) == IF a >= b THEN a ELSE b

\* rectsCollide with the spacing left out of the four comparisons.
rectsCollideNoSpacing(a, b, spacing) ==
  ~( \/ a.x + a.width <= b.x
     \/ b.x + b.width <= a.x
     \/ a.y + a.height <= b.y
     \/ b.y + b.height <= a.y )

rectsCollide(a, b, spacing) ==
  ~( \/ a.x + a.width + spacing <= b.x
     \/ b.x + b.width + spacing <= a.x
     \/ a.y + a.height + spacing <= b.y
     \/ b.y + b.height + spacing <= a.y )

\* existingNodes.some((node) => rectsCollide(candidateRect, node))
collides(candidateRect, existingNodes) ==
  \E node \in existingNodes : rectsCollide(candidateRect, node, Spacing)

\* candidateOffsets with the same-level offsets tried before the ones below.
candidateOffsetsSidesFirst(parentRect, newWidth, newHeight) ==
  << [x |-> parentRect.width + Spacing, y |-> 0],
     [x |-> -(newWidth + Spacing), y |-> 0],
     [x |-> 0, y |-> parentRect.height + Spacing],
     [x |-> parentRect.width + Spacing, y |-> parentRect.height + Spacing],
     [x |-> -(newWidth + Spacing), y |-> parentRect.height + Spacing],
     [x |-> 0, y |-> parentRect.height + Spacing + newHeight + Spacing],
     [x |-> 0, y |-> -(newHeight + Spacing)] >>

\* candidateOffsets: below, below-right, below-left, further below, right,
\* left, above.
candidateOffsets(parentRect, newWidth, newHeight) ==
  << [x |-> 0, y |-> parentRect.height + Spacing],
     [x |-> parentRect.width + Spacing, y |-> parentRect.height + Spacing],
     [x |-> -(newWidth + Spacing), y |-> parentRect.height + Spacing],
     [x |-> 0, y |-> parentRect.height + Spacing + newHeight + Spacing],
     [x |-> parentRect.width + Spacing, y |-> 0],
     [x |-> -(newWidth + Spacing), y |-> 0],
     [x |-> 0, y |-> -(newHeight + Spacing)] >>

\* The candidateRect of one offset.
offsetRect(parentRect, offset, newWidth, newHeight) ==
  [x |-> parentRect.x + offset.x, y |-> parentRect.y + offset.y,
   width |-> newWidth, height |-> newHeight]

\* The rings of the spiral and its eight angles, below, below-right,
\* below-left, right, left, above-right, above-left, above, each as its
\* cosine and sine in units of 1 / TrigUnit (cos and sin of a quarter of
\* pi taken as 0.7071).
Rings == 10
TrigUnit == 10000
Diagonal == 7071
angles ==
  << [cos |-> 0, sin |-> TrigUnit],
     [cos |-> Diagonal, sin |-> Diagonal],
     [cos |-> -Diagonal, sin |-> Diagonal],
     [cos |-> TrigUnit, sin |-> 0],
     [cos |-> -TrigUnit, sin |-> 0],
     [cos |-> Diagonal, sin |-> -Diagonal],
     [cos |-> -Diagonal, sin |-> -Diagonal],
     [cos |-> 0, sin |-> -TrigUnit] >>

\* Math.cos(angle) * ringDistance, to a tenth of a pixel.
Times(t, ringDistance) ==
  IF t >= 0 THEN (t * ringDistance) \div TrigUnit
  ELSE -(((-t) * ringDistance) \div TrigUnit)

ringDistance(ring, newWidth, newHeight) == ring * (Max(newWidth, newHeight) + Spacing)

\* The candidateRect of ring and angle.
spiralRect(parentRect, newWidth, newHeight, ring, angle) ==
  LET centerX == parentRect.x + parentRect.width \div 2 - newWidth \div 2
      centerY == parentRect.y + parentRect.height \div 2 - newHeight \div 2
  IN [x |-> centerX + Times(angle.cos, ringDistance(ring, newWidth, newHeight)),
      y |-> centerY + Times(angle.sin, ringDistance(ring, newWidth, newHeight)),
      width |-> newWidth, height |-> newHeight]

\* The largest of the numbers of S.
MaxOf(S) == CHOOSE m \in S : \A o \in S : o <= m

\* The ultimate fallback with maxY taken over the parent alone.
ultimateFallbackBelowParent(parentRect, existingNodes) ==
  [x |-> parentRect.x, y |-> parentRect.y + parentRect.height + Spacing * 2]

\* The ultimate fallback: far below.
ultimateFallback(parentRect, existingNodes) ==
  LET maxY == MaxOf({n.y + n.height : n \in existingNodes}
                    \cup {parentRect.y + parentRect.height})
  IN [x |-> parentRect.x, y |-> maxY + Spacing * 2]

\* The two loops of findPositionSpiral: the candidates are numbered ring
\* by ring, angle by angle, and the first that collides with nothing is
\* returned.
spiralCandidates == 1..(Rings * Len(angles))
ringOf(c) == ((c - 1) \div Len(angles)) + 1
angleOf(c) == angles[((c - 1) % Len(angles)) + 1]

findPositionSpiral(parentRect, newNodeDimensions, existingNodes) ==
  LET free == {c \in spiralCandidates :
                 ~collides(spiralRect(parentRect, newNodeDimensions.width,
                                      newNodeDimensions.height, ringOf(c), angleOf(c)),
                           existingNodes)}
  IN IF free = {} THEN ultimateFallback(parentRect, existingNodes)
     ELSE LET candidateRect == spiralRect(parentRect, newNodeDimensions.width,
                                          newNodeDimensions.height,
                                          ringOf(Min(free)), angleOf(Min(free)))
          IN [x |-> candidateRect.x, y |-> candidateRect.y]

\* The loop over candidateOffsets: the first offset whose rectangle
\* collides with nothing, else the spiral.
offsetLoop(parentRect, newNodeDimensions, existingNodes) ==
  LET offsets == candidateOffsets(parentRect, newNodeDimensions.width,
                                  newNodeDimensions.height)
      free == {i \in DOMAIN offsets :
                 ~collides(offsetRect(parentRect, offsets[i], newNodeDimensions.width,
                                      newNodeDimensions.height),
                           existingNodes)}
  IN IF free = {} THEN findPositionSpiral(parentRect, newNodeDimensions, existingNodes)
     ELSE LET candidateRect == offsetRect(parentRect, offsets[Min(free)],
                                          newNodeDimensions.width,
                                          newNodeDimensions.height)
          IN [x |-> candidateRect.x, y |-> candidateRect.y]

findFreePositionAABB(parentRect, newNodeDimensions, existingNodes) ==
  offsetLoop(parentRect, newNodeDimensions, existingNodes)

\* ------------------------------------------------- command handlers
\* What the last command was and what it answered.
NoResp ==
  [op |-> "none", conv |-> 0, node |-> Null, content |-> "", status |-> 0,
   deletes |-> <<>>, outcome |-> "", aiAttempts |-> 0, userNode |-> Null, aiNode |-> Null,
   newNodes |-> {}, newEdges |-> {}, reqRanges |-> NullRanges, graph |-> EmptyGraph,
   fromNodeIds |-> {}]

\* Nothing serialized since the draft last changed.
NoSer == [done |-> FALSE, text |-> <<>>, contextRanges |-> <<>>]

\* No command is writing: op says which one is, writes are the databases
\* its remaining statements lead to, before is the database it started from.
NoWrite == [op |-> "none", writes |-> <<>>, before |-> [nodes |-> <<>>, edges |-> {}, messages |-> <<>>]]

\* No getGraph is reading: pc says which query comes next, nodes is what
\* the first query returned, cands are the graphs at the command
\* boundaries since it began.
NoRead == [pc |-> "idle", conv |-> 0, nodes |-> <<>>, cands |-> {}]

NoObs == [valid |-> FALSE, graph |-> EmptyGraph, cands |-> {}]

\* listMessagesForNodeAncestors has not been called.
NoHist == [called |-> FALSE, conv |-> 0, seeds |-> <<>>, limit |-> 0, tie |-> "",
           result |-> <<>>]

\* The canvas has not been laid out: nodes are the rectangles of the
\* rendered nodes, occupiedRects those and the drafts placed so far, last
\* the last call of findFreePositionAABB.
NoCall == [parentRect |-> [x |-> 0, y |-> 0, width |-> 0, height |-> 0],
           newNodeDimensions |-> [width |-> 0, height |-> 0],
           existingNodes |-> {}, position |-> [x |-> 0, y |-> 0]]

NoPlace == [phase |-> "none", nodes |-> {}, occupiedRects |-> {}, drafts |-> 0,
            last |-> NoCall]

\* A draft with no pending context: pendingContexts as addDraftContext
\* keeps them, processed the ids of processedContextIdsRef, nextId the
\* next id crypto.randomUUID() gives, inserted the entry ids of the blocks
\* put into the editor's content since it was mounted, in order.
NoPend == [pendingContexts |-> <<>>, processed |-> {}, nextId |-> 1, inserted |-> <<>>]

\* No answer is shown and no highlight has been looked for.
NoLocate ==
  [phase |-> "none", bubble |-> <<>>, highlightText |-> <<>>,
   found |-> FALSE, matchStart |-> -1, matchEnd |-> -1]

\* A Map without entries.
EmptyMap == [k \in {} |-> 0]

\* The canvas is not mounted, no node has been dragged and no
\* updateNodePositions call has been made.
NoSaver ==
  [mounted |-> FALSE, conversationId |-> Null, currentConversationIdRef |-> Null,
   pendingPositionUpdates |-> EmptyMap, calls |-> <<>>,
   event |-> "none", node |-> [mode |-> "none", id |-> Null, anchorNodeId |-> Null],
   position |-> [x |-> 0, y |-> 0]]

\* The tables after a command; the backend leaves the editor alone.
Commit(db) ==
  /\ nodes' = db.nodes
  /\ edges' = db.edges
  /\ messages' = db.messages
  /\ UNCHANGED <<editor, requests, views>>

Init ==
  /\ nodes = <<>>
  /\ edges = {}
  /\ messages = <<>>
  /\ nextNode = 1
  /\ nextMsg = 1
  /\ resp = NoResp
  /\ dom = <<>>
  /\ ser = NoSer
  /\ inflight = NoWrite
  /\ rd = NoRead
  /\ obs = NoObs
  /\ hist = NoHist
  /\ place = NoPlace
  /\ pend = NoPend
  /\ loc = NoLocate
  /\ saver = NoSaver

\* POST /api/messages. The route reads conversationId, content,
\* fromNodeIds and draftNodeId from the body; a contextRanges field of the
\* body is not read, so createMessageWithAI gets none.
CreateExchange(conv, content, fromNodeIds, draftNodeId, ranges, outcome, sameMs) ==
  LET ai == aiStep(outcome)
      r == createMessageWithAI(DB, nextNode, nextMsg, conv, content, fromNodeIds,
                               "answer", draftNodeId, NullRanges, sameMs)
  IN /\ nextNode + 2 <= MaxNodes
     /\ nextMsg + 2 <= MaxMsgs
     /\ IF ~ai.ok
          THEN /\ Commit(DB)
               /\ UNCHANGED <<nextNode, nextMsg>>
               /\ resp' = [NoResp EXCEPT !.op = "create", !.conv = conv,
                             !.content = content,
                             !.status = 500, !.outcome = outcome, !.aiAttempts = ai.attempts,
                             !.reqRanges = ranges]
          ELSE /\ Commit(r.db)
               /\ nextNode' = r.nextNode
               /\ nextMsg' = r.nextMsg
               /\ resp' = [NoResp EXCEPT !.op = "create", !.conv = conv,
                             !.content = content,
                             !.status = 201, !.outcome = outcome, !.aiAttempts = ai.attempts,
                             !.userNode = r.userNode, !.aiNode = r.aiNode,
                             !.newNodes = r.newNodes, !.newEdges = r.newEdges,
                             !.reqRanges = ranges]

\* PUT /api/graph/:conversationId/nodes/:nodeId
EditNode(conv, nodeId, content, order, outcome) ==
  /\ nextNode <= MaxNodes
  /\ nextMsg <= MaxMsgs
  /\ IF ~editable(DB, conv, nodeId)
       THEN /\ Commit(DB)
            /\ UNCHANGED <<nextNode, nextMsg>>
            /\ resp' = [NoResp EXCEPT !.op = "edit", !.conv = conv, !.status = 400]
       ELSE LET e == editUserNodeContent(DB, conv, nodeId, content, order)
                ai == aiStep(outcome)
            IN IF ~ai.ok
                 THEN /\ Commit(e.db)
                      /\ UNCHANGED <<nextNode, nextMsg>>
                      /\ resp' = [NoResp EXCEPT !.op = "edit", !.conv = conv,
                                    !.node = nodeId, !.content = content,
                                    !.status = 500, !.deletes = e.deletes,
                                    !.outcome = outcome, !.aiAttempts = ai.attempts]
                 ELSE /\ Commit(addAiResponseNode(e.db, nextNode, nextMsg, conv,
                                                  nodeId, "answer"))
                      /\ nextNode' = nextNode + 1
                      /\ nextMsg' = nextMsg + 1
                      /\ resp' = [NoResp EXCEPT !.op = "edit", !.conv = conv,
                                    !.node = nodeId, !.content = content,
                                    !.status = 200, !.deletes = e.deletes,
                                    !.outcome = outcome, !.aiAttempts = ai.attempts,
                                    !.aiNode = nextNode, !.newNodes = {nextNode},
                                    !.newEdges = {[conv |-> conv, source |-> nodeId,
                                                   target |-> nextNode]}]

\* DELETE /api/graph/:conversationId/nodes/:nodeId
DeleteNode(conv, nodeId) ==
  LET r == deleteNodeSubtreeRespectingJoins(DB, conv, nodeId)
  IN /\ Commit(r.db)
     /\ UNCHANGED <<nextNode, nextMsg>>
     /\ resp' = [NoResp EXCEPT !.op = "delete", !.conv = conv, !.node = nodeId,
                   !.status = 200,
                   !.deletes = <<[root |-> nodeId,
                                  deletedNodeIds |-> r.deletedNodeIds,
                                  edges |-> edges]>>]

\* GET /api/graph/:conversationId
GetGraph(conv) ==
  /\ Commit(DB)
  /\ UNCHANGED <<nextNode, nextMsg>>
  /\ resp' = [NoResp EXCEPT !.op = "get", !.conv = conv, !.status = 200,
                !.graph = getGraph(DB, conv)]

\* The ids a request may name, and the fromNodeIds lists it may carry.
KnownIds == DOMAIN nodes \cup {AbsentId}
FromSets ==
  {F \in SUBSET DOMAIN nodes : Cardinality(F) <= MaxFrom} \cup {{AbsentId}}

\* The commands of the graph specification: every fromNodeIds set, every
\* draftNodeId (present or not), the AI answering at once or failing twice.
GraphOutcomes == {"ok1", "fail"}

DoCreate ==
  \E conv \in Convs, content \in NewContents, F \in FromSets, d \in KnownIds \cup {Null},
     o \in GraphOutcomes :
    CreateExchange(conv, content, F, d, NullRanges, o, TRUE)

DoEdit ==
  \E conv \in Convs, n \in KnownIds, content \in Contents, o \in GraphOutcomes :
    \E order \in Perms(childrenOf(DB, conv, n)) :
      EditNode(conv, n, content, order, o)

DoDelete == \E conv \in Convs, n \in KnownIds : DeleteNode(conv, n)

DoGet == \E conv \in Convs : GetGraph(conv)

Next == DoCreate \/ DoEdit \/ DoDelete \/ DoGet

Spec == Init /\ [][Next]_vars

\* The commands of the request/response specification: every AI outcome
\* and a request body with or without contextRanges, on graphs of at most
\* MaxIoNodes nodes.
IoCreate ==
  /\ nextNode + 1 <= MaxIoNodes
  /\ \E conv \in Convs, content \in NewContents, F \in FromSets, d \in KnownIds \cup {Null},
        rg \in RangeInputs, o \in AiOutcomes :
       CreateExchange(conv, content, F, d, rg, o, TRUE)

IoEdit ==
  /\ nextNode <= MaxIoNodes
  /\ \E conv \in Convs, n \in KnownIds, content \in Contents, o \in AiOutcomes :
       \E order \in Perms(childrenOf(DB, conv, n)) :
         EditNode(conv, n, content, order, o)

IoDelete == \E conv \in Convs, n \in KnownIds : DeleteNode(conv, n)

IoGet == \E conv \in Convs : GetGraph(conv)

NextIO == IoCreate \/ IoEdit \/ IoDelete \/ IoGet

SpecIO == Init /\ [][NextIO]_vars

\* The history specification: exchanges whose two messages are stamped in
\* the same millisecond or in successive ones, and then
\* one call of listMessagesForNodeAncestors with any seed list (repeated,
\* reordered and absent ids included), any limit and either tie order.
SeedLists == UNION {[1..k -> KnownIds] : k \in 0..MaxSeeds}
Limits == {0, MaxLimit, HistoryLimit}
TieOrders == {"idAsc", "idDesc"}

AncResolve(conv, seeds, limit, tie) ==
  /\ hist' = [called |-> TRUE, conv |-> conv, seeds |-> seeds, limit |-> limit,
              tie |-> tie,
              result |-> listMessagesForNodeAncestors(DB, conv, seeds, limit, tie)]
  /\ UNCHANGED <<backend, editor, requests, place, pend, loc, saver>>

AncCreate ==
  /\ ~hist.called
  /\ nextNode + 1 <= MaxAncNodes
  /\ \E conv \in Convs, content \in NewContents, F \in FromSets, sameMs \in BOOLEAN :
       CreateExchange(conv, content, F, Null, NullRanges, "ok1", sameMs)

AncCall ==
  /\ ~hist.called
  /\ \E conv \in Convs, seeds \in SeedLists, limit \in Limits, tie \in TieOrders :
       AncResolve(conv, seeds, limit, tie)

NextAnc == AncCreate \/ AncCall

SpecAnc == Init /\ [][NextAnc]_vars

\* ------------------------------------------------- draft editor (QaNode)
\* The editor holds at most MaxChildren child nodes; a typed or pasted
\* piece of text has at most MaxStr characters.
MaxChildren == 4
MaxStr == 2

\* A text is a sequence of characters. " " stands for every white-space
\* character, the no-break space included: String.prototype.trim removes
\* them all alike.
IsSpace(c) == c = " "
Nbsp == " "
LiteralTexts == UNION {[1..k -> {"a", " "}] : k \in 1..MaxStr}

\* The text of a pending context: selection.toString().trim(), not empty.
ContextTexts == {<<"b">>, <<"b", "a">>}
SourceIds == {1}

\* The child nodes of the contentEditable element.
TextNode(s) == [kind |-> "text", text |-> s, sourceNodeId |-> Null]
ContextBlock(ctx, src) == [kind |-> "block", text |-> ctx, sourceNodeId |-> src]

\* range.insertNode at a caret between the children pos and pos + 1.
InsertAt(s, pos, items) == SubSeq(s, 1, pos) \o items \o SubSeq(s, pos + 1, Len(s))

RECURSIVE TrimStart(_)
TrimStart(s) == IF s # <<>> /\ IsSpace(Head(s)) THEN TrimStart(Tail(s)) ELSE s

RECURSIVE TrimEnd(_)
TrimEnd(s) ==
  IF s # <<>> /\ IsSpace(s[Len(s)]) THEN TrimEnd(SubSeq(s, 1, Len(s) - 1)) ELSE s

\* String.prototype.trim
Trim(s) == TrimEnd(TrimStart(s))

\* childNodes.forEach of serializeContent: a text node appends its text; a
\* context block records text.length before and after appending its
\* contextText.
RECURSIVE serializeLoop(_, _, _)
serializeLoop(children, text, contextRanges) ==
  IF children = <<>> THEN [text |-> text, contextRanges |-> contextRanges]
  ELSE LET node == Head(children)
       IN IF node.kind = "text"
            THEN serializeLoop(Tail(children), text \o node.text, contextRanges)
            ELSE LET startPos == Len(text)
                     endPos == Len(text \o node.text)
                 IN serializeLoop(Tail(children), text \o node.text,
                                  Append(contextRanges,
                                         [sourceNodeId |-> node.sourceNodeId,
                                          startPos |-> startPos,
                                          endPos |-> endPos]))

\* serializeContent: the loop, then { text: text.trim(), contextRanges }.
serializeContent(children) ==
  LET r == serializeLoop(children, <<>>, <<>>)
  IN [done |-> TRUE, text |-> Trim(r.text), contextRanges |-> r.contextRanges]

\* The user types or pastes s at the caret.
TypeText(pos, s) ==
  /\ Len(dom) + 1 <= MaxChildren
  /\ dom' = InsertAt(dom, pos, <<TextNode(s)>>)
  /\ ser' = NoSer
  /\ UNCHANGED <<backend, requests, views>>

\* The pending-context effect: the block span, and a no-break space after
\* it, inserted at the caret.
AttachContext(pos, ctx, src) ==
  /\ Len(dom) + 2 <= MaxChildren
  /\ dom' = InsertAt(dom, pos, <<ContextBlock(ctx, src), TextNode(<<Nbsp>>)>>)
  /\ ser' = NoSer
  /\ UNCHANGED <<backend, requests, views>>

\* handleSend reads the editor with serializeContent.
Serialize ==
  /\ ser' = serializeContent(dom)
  /\ UNCHANGED <<backend, requests, views, dom>>

\* handleSend after onSend: a text that is not empty was sent, and the
\* editor is emptied.
ClearDraft ==
  /\ ser.done /\ ser.text # <<>>
  /\ dom' = <<>>
  /\ ser' = NoSer
  /\ UNCHANGED <<backend, requests, views>>

DoType == \E pos \in 0..Len(dom), s \in LiteralTexts : TypeText(pos, s)

DoAttach ==
  \E pos \in 0..Len(dom), ctx \in ContextTexts, src \in SourceIds :
    AttachContext(pos, ctx, src)

NextSer == DoType \/ DoAttach \/ Serialize \/ ClearDraft

SpecSer == Init /\ [][NextSer]_vars

\* ------------------------------------------------- pending contexts (QaNode)
\* addDraftContext: a new entry, with an id of its own, is appended to the
\* draft's pendingContexts.
addDraftContext(p, contextText, sourceNodeId) ==
  [p EXCEPT !.pendingContexts = Append(@, [id |-> p.nextId, text |-> contextText,
                                          sourceNodeId |-> sourceNodeId]),
            !.nextId = @ + 1]

\* newContexts without the filter: every pending context, each time.
newContextsUnfiltered(pendingContexts, processed) == pendingContexts

\* newContexts: the pending contexts whose id is not in
\* processedContextIdsRef.
newContexts(pendingContexts, processed) ==
  LET isNew(c) == c.id \notin processed
  IN SelectSeq(pendingContexts, isNew)

\* newContexts.forEach: the span of each context and a no-break space
\* after it, in the contexts' order.
RECURSIVE contextBlocks(_)
contextBlocks(contexts) ==
  IF contexts = <<>> THEN <<>>
  ELSE <<ContextBlock(Head(contexts).text, Head(contexts).sourceNodeId),
         TextNode(<<Nbsp>>)>> \o contextBlocks(Tail(contexts))

\* The ids of contexts, in order.
contextIds(contexts) == [i \in DOMAIN contexts |-> contexts[i].id]

\* A selection is attached to the draft.
AttachPending(contextText, sourceNodeId) ==
  /\ pend.nextId <= MaxEntries
  /\ pend' = addDraftContext(pend, contextText, sourceNodeId)
  /\ UNCHANGED <<backend, editor, requests, hist, place, loc, saver>>

\* The pending-context effect runs, on a change of pendingContexts or on
\* any other render that re-runs it, with the caret at pos: nothing
\* happens without new contexts; else their ids are marked processed and
\* their blocks inserted at the caret.
RunContextEffect(pos) ==
  LET new == newContexts(pend.pendingContexts, pend.processed)
  IN IF new = <<>> THEN UNCHANGED vars
     ELSE /\ pend' = [pend EXCEPT
                        !.processed = @ \cup Range(contextIds(new)),
                        !.inserted = @ \o contextIds(new)]
          /\ dom' = InsertAt(dom, pos, contextBlocks(new))
          /\ ser' = NoSer
          /\ UNCHANGED <<backend, requests, hist, place, loc, saver>>

\* The user types or pastes s at the caret, once: the editor holds
\* nothing yet but blocks and the spaces after them.
TypeOnce(pos, s) ==
  /\ \A i \in DOMAIN dom : dom[i].kind = "block" \/ dom[i].text = <<Nbsp>>
  /\ dom' = InsertAt(dom, pos, <<TextNode(s)>>)
  /\ ser' = NoSer
  /\ UNCHANGED <<backend, requests, views>>

\* The node component is mounted anew: an empty editor and an empty
\* processedContextIdsRef, the draft's pendingContexts as they were.
Remount ==
  /\ pend.processed # {}
  /\ pend' = [pend EXCEPT !.processed = {}, !.inserted = <<>>]
  /\ dom' = <<>>
  /\ ser' = NoSer
  /\ UNCHANGED <<backend, requests, hist, place, loc, saver>>

CtxAttach == \E ctx \in ContextTexts, src \in SourceIds : AttachPending(ctx, src)
CtxEffect == \E pos \in 0..Len(dom) : RunContextEffect(pos)
CtxType == \E pos \in 0..Len(dom), s \in LiteralTexts \ {<<Nbsp>>} : TypeOnce(pos, s)

NextCtx == CtxAttach \/ CtxEffect \/ CtxType \/ Remount

SpecCtx == Init /\ [][NextCtx]_vars

\* ------------------------------------------------- highlight of a quoted text
\* The characters of an answer and of a quoted text: two letters, the space
\* and "nl" for every other white-space character.
Chars == {"a", "b", " ", "nl"}

\* /\s/
isWhitespace(c) == c \in {" ", "nl"}

TextsUpTo(n) == UNION {[1..k -> Chars] : k \in 0..n}

\* textNodes.map(tn => tn.node.textContent).join('')
RECURSIVE join(_)
join(texts) == IF texts = <<>> THEN <<>> ELSE Head(texts) \o join(Tail(texts))

\* text.replace(/\s+/g, ' ')
RECURSIVE collapseWhitespace(_)
collapseWhitespace(text) ==
  IF text = <<>> THEN <<>>
  ELSE IF ~isWhitespace(Head(text))
       THEN <<Head(text)>> \o collapseWhitespace(Tail(text))
       ELSE IF Len(text) > 1 /\ isWhitespace(text[2])
            THEN collapseWhitespace(Tail(text))
            ELSE <<" ">> \o collapseWhitespace(Tail(text))

\* After the replace every white-space character is a space.
normalizeWhitespace(text) == Trim(collapseWhitespace(text))

\* A search that takes an absent text as found at the start.
indexOfOrStart(text, search) ==
  LET hits == {i \in 0..(Len(text) - Len(search)) :
                 SubSeq(text, i + 1, i + Len(search)) = search}
  IN IF hits = {} THEN 0 ELSE Min(hits)

\* String.prototype.indexOf: the offset of the first occurrence, or -1.
indexOf(text, search) ==
  LET hits == {i \in 0..(Len(text) - Len(search)) :
                 SubSeq(text, i + 1, i + Len(search)) = search}
  IN IF hits = {} THEN -1 ELSE Min(hits)

\* String.prototype.slice: a negative start counts from the end.
slice(text, start, end) ==
  LET n == Len(text)
      from == IF start < 0 THEN (IF n + start < 0 THEN 0 ELSE n + start)
              ELSE (IF start > n THEN n ELSE start)
      to == IF end < 0 THEN (IF n + end < 0 THEN 0 ELSE n + end)
            ELSE (IF end > n THEN n ELSE end)
  IN IF from >= to THEN <<>> ELSE SubSeq(text, from + 1, to)

\* The characters that are not white space among the first n of text.
nonWsCount(text, n) == Cardinality({i \in 1..n : ~isWhitespace(text[i])})

\* The match that starts at the last occurrence.
findMatchLast(combinedText, highlightText) ==
  LET hits == {i \in 0..(Len(combinedText) - Len(highlightText)) :
                 SubSeq(combinedText, i + 1, i + Len(highlightText)) = highlightText}
  IN IF hits = {} THEN [found |-> FALSE, matchStart |-> -1, matchEnd |-> -1]
     ELSE LET last == CHOOSE i \in hits : \A j \in hits : j <= i
          IN [found |-> TRUE, matchStart |-> last,
              matchEnd |-> last + Len(highlightText)]

\* The search of the effect: the exact match, else the match of the
\* normalized texts taken back to offsets of combinedText by counting the
\* characters that are not white space.
findMatch(combinedText, highlightText) ==
  LET exact == indexOf(combinedText, highlightText)
      none == [found |-> FALSE, matchStart |-> -1, matchEnd |-> -1]
  IN IF exact >= 0
     THEN [found |-> TRUE, matchStart |-> exact,
           matchEnd |-> exact + Len(highlightText)]
     ELSE
       LET normalizedSearch == normalizeWhitespace(highlightText)
           normalizedCombined == normalizeWhitespace(combinedText)
           normalizedMatchStart == indexOf(normalizedCombined, normalizedSearch)
       IN IF normalizedMatchStart < 0 THEN none
          ELSE
            LET targetNonWsCount == nonWsCount(normalizedCombined, normalizedMatchStart)
                starts == {i \in 0..(Len(combinedText) - 1) :
                             nonWsCount(combinedText, i + 1) > targetNonWsCount}
                matchStart == IF starts = {} THEN -1 ELSE Min(starts)
                endNonWsCount ==
                  targetNonWsCount + nonWsCount(normalizedSearch, Len(normalizedSearch))
                ends == {i \in 0..(Len(combinedText) - 1) :
                           nonWsCount(combinedText, i + 1) >= endNonWsCount}
                matchEnd == IF ends = {} THEN Len(combinedText) ELSE Min(ends) + 1
                effectiveHighlightText == slice(combinedText, matchStart, matchEnd)
            IN IF matchStart < 0 THEN none
               ELSE [found |-> TRUE, matchStart |-> matchStart,
                     matchEnd |-> matchStart + Len(effectiveHighlightText)]

\* The answer bubble: its elements in document order, each with its text as
\* pieces: a text node (mark FALSE) or a highlight span (mark TRUE).
Piece(text, mark) == [text |-> text, mark |-> mark]

pieceTexts(pieces) == [j \in DOMAIN pieces |-> pieces[j].text]

\* collectTextNodes: the text nodes that are not empty, in document order.
textNodes(bubble) ==
  LET isText(piece) == ~piece.mark /\ piece.text # <<>>
  IN SelectSeq(join(bubble), isText)

\* An overlapping text node becomes before, span, after; before and after
\* are left out when empty.
wrapNode(text, start, matchStart, matchEnd) ==
  IF start + Len(text) <= matchStart \/ start >= matchEnd
  THEN <<Piece(text, FALSE)>>
  ELSE LET localStart == IF matchStart - start < 0 THEN 0 ELSE matchStart - start
           localEnd == IF matchEnd - start > Len(text) THEN Len(text)
                       ELSE matchEnd - start
           before == slice(text, 0, localStart)
           after == slice(text, localEnd, Len(text))
       IN (IF before = <<>> THEN <<>> ELSE <<Piece(before, FALSE)>>)
          \o <<Piece(slice(text, localStart, localEnd), TRUE)>>
          \o (IF after = <<>> THEN <<>> ELSE <<Piece(after, FALSE)>>)

\* The bubble with the match wrapped; every element holds one text node
\* when the effect runs.
wrapMatches(bubble, matchStart, matchEnd) ==
  [k \in DOMAIN bubble |->
     wrapNode(bubble[k][1].text,
              Len(join(pieceTexts(join(SubSeq(bubble, 1, k - 1))))),
              matchStart, matchEnd)]

\* The cleanup of the effect: every span becomes a text node again and
\* parent.normalize() merges the text nodes of the element.
removeHighlights(bubble) ==
  [k \in DOMAIN bubble |-> <<Piece(join(pieceTexts(bubble[k])), FALSE)>>]

\* The answer is rendered: its text nodes, none empty.
ShowAnswer(texts) ==
  /\ loc.phase = "none"
  /\ loc' = [NoLocate EXCEPT !.phase = "shown",
                             !.bubble = [k \in DOMAIN texts |-> <<Piece(texts[k], FALSE)>>]]
  /\ UNCHANGED <<backend, editor, requests, hist, place, pend, saver>>

\* data.highlightText becomes the text: the effect runs.
Highlight(highlightText) ==
  /\ loc.phase = "shown"
  /\ highlightText # <<>>
  /\ LET combinedText == join(pieceTexts(textNodes(loc.bubble)))
     IN \E match \in {findMatch(combinedText, highlightText)} :
          loc' = [phase |-> "lit",
                  bubble |-> IF match.found
                             THEN wrapMatches(loc.bubble, match.matchStart, match.matchEnd)
                             ELSE loc.bubble,
                  highlightText |-> highlightText,
                  found |-> match.found,
                  matchStart |-> match.matchStart,
                  matchEnd |-> match.matchEnd]
  /\ UNCHANGED <<backend, editor, requests, hist, place, pend, saver>>

\* data.highlightText becomes null: the cleanup runs.
ClearHighlight ==
  /\ loc.phase = "lit"
  /\ loc' = [NoLocate EXCEPT !.phase = "shown",
                             !.bubble = removeHighlights(loc.bubble)]
  /\ UNCHANGED <<backend, editor, requests, hist, place, pend, saver>>

\* The answers shown: one or two text nodes, MaxSrc characters in all.
AnswerTexts ==
  {<<t>> : t \in TextsUpTo(MaxSrc) \ {<<>>}}
  \cup {<<t, u>> : t \in TextsUpTo(1) \ {<<>>}, u \in TextsUpTo(MaxSrc - 1) \ {<<>>}}

HighlightTexts == TextsUpTo(MaxHl) \ {<<>>}

DoShow == \E texts \in AnswerTexts : ShowAnswer(texts)
DoHighlight == \E highlightText \in HighlightTexts : Highlight(highlightText)

NextLoc == DoShow \/ DoHighlight \/ ClearHighlight

SpecLoc == Init /\ [][NextLoc]_vars

\* ------------------------------------------------- requests, statement by statement
\* The Worker runs each request as its own async handler over the shared
\* database: every awaited statement is a step, and the steps of a command
\* that writes and of a getGraph that reads may alternate. Graphs of at
\* most MaxConcNodes nodes.
MaxConcNodes == 4

\* A command starts: ws are the databases its statements lead to, in order.
Begin(op, ws) ==
  /\ inflight.op = "none"
  /\ ws # <<>>
  /\ inflight' = [op |-> op, writes |-> ws, before |-> DB]
  /\ UNCHANGED <<nodes, edges, messages, resp, editor, views, rd, obs>>

\* POST /api/messages, the AI having answered: createMessageWithAI.
BeginCreate(conv, content, fromNodeIds, draftNodeId) ==
  /\ nextNode + 1 <= MaxConcNodes
  /\ Begin("create", createWrites(DB, nextNode, nextMsg, conv, content, fromNodeIds,
                                  "answer", draftNodeId, NullRanges, TRUE))
  /\ nextNode' = createMessageWithAI(DB, nextNode, nextMsg, conv, content, fromNodeIds,
                                     "answer", draftNodeId, NullRanges, TRUE).nextNode
  /\ nextMsg' = nextMsg + 2

\* PUT .../nodes/:nodeId, the AI having answered: editUserNodeContent,
\* then addAiResponseNode.
BeginEdit(conv, nodeId, content, order) ==
  /\ nextNode <= MaxConcNodes
  /\ editable(DB, conv, nodeId)
  /\ LET e == editUserNodeContent(DB, conv, nodeId, content, order)
     IN Begin("edit", e.writes \o addAiWrites(e.db, nextNode, nextMsg, conv, nodeId, "answer"))
  /\ nextNode' = nextNode + 1
  /\ nextMsg' = nextMsg + 1

\* DELETE .../nodes/:nodeId: deleteNodeSubtreeRespectingJoins.
BeginDelete(conv, nodeId) ==
  /\ Begin("delete", deleteNodeSubtreeRespectingJoins(DB, conv, nodeId).writes)
  /\ UNCHANGED <<nextNode, nextMsg>>

\* The command's next awaited statement runs. With its last statement the
\* command is over, and a getGraph that is reading has one more command
\* boundary behind it.
WriterStep ==
  /\ inflight.writes # <<>>
  /\ LET db == Head(inflight.writes)
         rest == Tail(inflight.writes)
     IN /\ nodes' = db.nodes
        /\ edges' = db.edges
        /\ messages' = db.messages
        /\ inflight' = IF rest = <<>> THEN NoWrite ELSE [inflight EXCEPT !.writes = rest]
        /\ rd' = IF rest = <<>> /\ rd.pc # "idle"
                   THEN [rd EXCEPT !.cands = @ \cup {getGraph(db, rd.conv)}]
                   ELSE rd
  /\ UNCHANGED <<nextNode, nextMsg, resp, editor, views, obs>>

\* getGraph's first statement: the node rows.
ReadNodes(conv) ==
  /\ rd.pc = "idle"
  /\ rd' = [pc |-> "edges", conv |-> conv, nodes |-> getGraph(DB, conv).nodes,
            cands |-> {getGraph(IF inflight.op = "none" THEN DB ELSE inflight.before,
                                conv)}]
  /\ UNCHANGED <<backend, editor, views, inflight, obs>>

\* getGraph's second statement: the edge rows; the graph is returned.
ReadEdges ==
  /\ rd.pc = "edges"
  /\ obs' = [valid |-> TRUE,
             graph |-> [nodes |-> rd.nodes, edges |-> getGraph(DB, rd.conv).edges],
             cands |-> rd.cands]
  /\ rd' = NoRead
  /\ UNCHANGED <<backend, editor, views, inflight>>

ConcCreate ==
  \E conv \in Convs, content \in NewContents, F \in FromSets, d \in KnownIds \cup {Null} :
    BeginCreate(conv, content, F, d)

ConcEdit ==
  \E conv \in Convs, n \in KnownIds, content \in Contents :
    \E order \in Perms(childrenOf(DB, conv, n)) : BeginEdit(conv, n, content, order)

ConcDelete == \E conv \in Convs, n \in KnownIds : BeginDelete(conv, n)

ConcRead == \E conv \in Convs : ReadNodes(conv)

NextConc == ConcCreate \/ ConcEdit \/ ConcDelete \/ WriterStep \/ ConcRead \/ ReadEdges

SpecConc == Init /\ [][NextConc]_vars

\* ------------------------------------------------- draft layout
\* The rectangles rendered nodes may have: a node at the origin, a node on
\* each of the seven priority positions around it, and a node that covers
\* every candidate of the search.
RootStep == 220
Origin == Rect(0, 0, DEFAULT_NODE_WIDTH, DEFAULT_NODE_HEIGHT)
Cover == Rect(-5000, -5000, 10000, 10000)
RectPool ==
  {Origin, Cover}
    \cup {Rect(x, RootStep, DEFAULT_NODE_WIDTH, DEFAULT_NODE_HEIGHT) : x \in {-360, 0, 360}}
    \cup {Rect(x, 0, DEFAULT_NODE_WIDTH, DEFAULT_NODE_HEIGHT) : x \in {-360, 360}}
    \cup {Rect(0, y, DEFAULT_NODE_WIDTH, DEFAULT_NODE_HEIGHT) : y \in {-RootStep, 2 * RootStep}}

\* The sizes a new node may have: the drafts' default size, and a smaller
\* one.
NewDims == {Dims(DEFAULT_NODE_WIDTH, DEFAULT_NODE_HEIGHT), Dims(200, 100)}

\* occupiedRects = reactFlowNodes.map(getNodeRect)
LoadCanvas(rects) ==
  /\ place.phase = "none"
  /\ place' = [NoPlace EXCEPT !.phase = "loaded", !.nodes = rects, !.occupiedRects = rects]
  /\ UNCHANGED <<backend, editor, requests, hist, pend, loc, saver>>

\* The parent of a root draft.
rootRect(index) ==
  Rect(0, (Cardinality(place.nodes) + index) * RootStep,
       DEFAULT_NODE_WIDTH, DEFAULT_NODE_HEIGHT)

\* One draft of drafts.map: its position is found against occupiedRects
\* and its rectangle is pushed to them.
PlaceDraft(parentRect, newNodeDimensions) ==
  /\ place.phase \in {"loaded", "placed"}
  /\ place.drafts < MaxDrafts
  /\ \E position \in {findFreePositionAABB(parentRect, newNodeDimensions,
                                            place.occupiedRects)} :
       place' = [place EXCEPT
                    !.phase = "placed",
                    !.drafts = @ + 1,
                    !.occupiedRects = @ \cup {[x |-> position.x, y |-> position.y,
                                               width |-> newNodeDimensions.width,
                                               height |-> newNodeDimensions.height]},
                    !.last = [parentRect |-> parentRect,
                              newNodeDimensions |-> newNodeDimensions,
                              existingNodes |-> place.occupiedRects,
                              position |-> position]]
  /\ UNCHANGED <<backend, editor, requests, hist, pend, loc, saver>>

DoLoad ==
  /\ place.phase = "none"
  /\ \E rects \in {r \in SUBSET RectPool : Cardinality(r) <= MaxRects} : LoadCanvas(rects)

\* A draft anchored on a rendered node.
DoPlaceAnchored ==
  \E parentRect \in place.nodes, d \in NewDims : PlaceDraft(parentRect, d)

\* A root draft.
DoPlaceRoot == \E d \in NewDims : PlaceDraft(rootRect(place.drafts), d)

\* The exported function called with a parent that is not among the
\* occupied rectangles.
DoPlaceApart ==
  \E parentRect \in RectPool \ place.nodes, d \in NewDims : PlaceDraft(parentRect, d)

NextPlace == DoLoad \/ DoPlaceAnchored \/ DoPlaceRoot \/ DoPlaceApart

SpecPlace == Init /\ [][NextPlace]_vars

\* ------------------------------------------------- two conversations
\* The conversations of the store: a request names one of them, and node
\* ids of either.
BothConvs == {1, 2}

\* POST /api/messages with the AI answering; the last answer keeps the
\* fromNodeIds of the request.
AskAcross(conv, fromNodeIds, draftNodeId) ==
  /\ nextNode + 1 <= MaxConvNodes
  /\ \E r \in {createMessageWithAI(DB, nextNode, nextMsg, conv, "q1", fromNodeIds,
                                   "answer", draftNodeId, NullRanges, FALSE)} :
       /\ Commit(r.db)
       /\ nextNode' = r.nextNode
       /\ nextMsg' = r.nextMsg
       /\ resp' = [NoResp EXCEPT !.op = "create", !.conv = conv, !.content = "q1",
                                 !.status = 201, !.outcome = "ok1", !.aiAttempts = 1,
                                 !.userNode = r.userNode, !.aiNode = r.aiNode,
                                 !.newNodes = r.newNodes, !.newEdges = r.newEdges,
                                 !.fromNodeIds = fromNodeIds]

AcrossCreate ==
  \E conv \in BothConvs, d \in KnownIds \cup {Null} :
    \E F \in {G \in SUBSET KnownIds : Cardinality(G) <= MaxFrom} :
      AskAcross(conv, F, d)

AcrossEdit ==
  /\ nextNode <= MaxConvNodes
  /\ \E conv \in BothConvs, n \in KnownIds :
       \E order \in Perms(childrenOf(DB, conv, n)) :
         EditNode(conv, n, "q2", order, "ok1")

AcrossDelete == \E conv \in BothConvs, n \in KnownIds : DeleteNode(conv, n)

NextAcross == AcrossCreate \/ AcrossEdit \/ AcrossDelete

SpecAcross == Init /\ [][NextAcross]_vars

\* ------------------------------------------------- node positions
\* The conversations the canvas is opened for.
SaverConvs == {1, 2}

\* The nodes of the canvas: two pairs (the first with an ai node, its
\* anchor; the second without) and a draft hanging from the first pair.
CanvasNodes ==
  {[mode |-> "complete", id |-> 1, anchorNodeId |-> 2],
   [mode |-> "complete", id |-> 3, anchorNodeId |-> Null],
   [mode |-> "draft", id |-> 9, anchorNodeId |-> 2]}

\* node.position where a drag stopped.
Positions == {[x |-> 0, y |-> 0], [x |-> 1, y |-> 0]}

\* Map.prototype.set
mapSet(map, key, value) ==
  [k \in DOMAIN map \cup {key} |-> IF k = key THEN value ELSE map[k]]

\* The conversation of the cleanup taken from the prop of the render.
departingConversationIdFromProp(s) == s.conversationId

\* The conversation the cleanup sends to: currentConversationIdRef.current.
departingConversationId(s) == s.currentConversationIdRef

\* The cleanup of the flush effect: one call with every pending entry, and
\* the Map cleared; nothing when the Map is empty.
flushPending(s) ==
  IF DOMAIN s.pendingPositionUpdates = {} THEN s
  ELSE [s EXCEPT !.calls = Append(@, [conversationId |-> departingConversationId(s),
                                      positions |-> s.pendingPositionUpdates]),
                 !.pendingPositionUpdates = EmptyMap]

\* onNodeDragStop
recordDragStop(s, node, position) ==
  IF node.mode # "complete" THEN s
  ELSE LET anchorNodeId == IF node.anchorNodeId # Null THEN node.anchorNodeId
                           ELSE node.id
       IN [s EXCEPT !.pendingPositionUpdates = mapSet(@, anchorNodeId, position)]

\* ConversationGraph is mounted for a conversation: the refs are created
\* and both effects run.
MountCanvas(conversationId) ==
  /\ ~saver.mounted
  /\ saver' = [saver EXCEPT !.mounted = TRUE,
                            !.conversationId = conversationId,
                            !.currentConversationIdRef = conversationId,
                            !.pendingPositionUpdates = EmptyMap,
                            !.event = "mount", !.node = NoSaver.node,
                            !.position = NoSaver.position]
  /\ UNCHANGED <<backend, editor, requests, hist, place, pend, loc>>

\* A drag of a node of the canvas stops.
DragStop(node, position) ==
  /\ saver.mounted
  /\ saver' = [recordDragStop(saver, node, position) EXCEPT
                 !.event = "drag", !.node = node, !.position = position]
  /\ UNCHANGED <<backend, editor, requests, hist, place, pend, loc>>

\* The conversationId prop changes: after the render the cleanup of the
\* flush effect runs, then the effect that sets currentConversationIdRef.
ChangeConversation(conversationId) ==
  /\ saver.mounted
  /\ conversationId # saver.conversationId
  /\ DOMAIN saver.pendingPositionUpdates # {} => Len(saver.calls) < MaxCalls
  /\ \E flushed \in {flushPending([saver EXCEPT !.conversationId = conversationId])} :
       saver' = [flushed EXCEPT !.currentConversationIdRef = conversationId,
                                !.event = "change", !.node = NoSaver.node,
                                !.position = NoSaver.position]
  /\ UNCHANGED <<backend, editor, requests, hist, place, pend, loc>>

\* ConversationGraph is unmounted: the cleanup of the flush effect runs.
UnmountCanvas ==
  /\ saver.mounted
  /\ DOMAIN saver.pendingPositionUpdates # {} => Len(saver.calls) < MaxCalls
  /\ saver' = [flushPending(saver) EXCEPT !.mounted = FALSE,
                                          !.event = "unmount",
                                          !.node = NoSaver.node,
                                          !.position = NoSaver.position]
  /\ UNCHANGED <<backend, editor, requests, hist, place, pend, loc>>

DoMount == \E conversationId \in SaverConvs : MountCanvas(conversationId)
DoDrag == \E node \in CanvasNodes, position \in Positions : DragStop(node, position)
DoChange == \E conversationId \in SaverConvs : ChangeConversation(conversationId)

NextSaver == DoMount \/ DoDrag \/ DoChange \/ UnmountCanvas

SpecSaver == Init /\ [][NextSaver]_vars

\* ------------------------------------------------- delete of a selection
\* The anchor of a pair on the canvas: its ai node, or its user node when
\* there is no ai node.
anchorNodeIds(db, conv) ==
  {n \in fetchNodes(db, conv) :
     \/ db.nodes[n].type = "ai"
     \/ /\ db.nodes[n].type = "user"
        /\ \A e \in fetchEdges(db, conv) :
             e.source = n => db.nodes[e.target].type # "ai"}

\* resolveRootId: a user node is its own root; an ai node resolves to the
\* user node an incoming edge comes from (the ai nodes here have one).
resolveRootId(db, conv, anchorId) ==
  IF anchorId \notin fetchNodes(db, conv) THEN anchorId
  ELSE IF db.nodes[anchorId].type = "user" THEN anchorId
  ELSE LET users == {e.source : e \in {x \in fetchEdges(db, conv) :
                                         /\ x.target = anchorId
                                         /\ x.source \in fetchNodes(db, conv)
                                         /\ db.nodes[x.source].type = "user"}}
       IN IF users = {} THEN anchorId ELSE Min(users)

\* Array.from(new Set(selectedAnchorNodeIds.map(resolveRootId))): the
\* roots in the order of their first appearance.
RECURSIVE rootIdsOf(_, _, _, _)
rootIdsOf(db, conv, selected, seen) ==
  IF selected = <<>> THEN <<>>
  ELSE LET root == resolveRootId(db, conv, Head(selected))
       IN IF root \in seen THEN rootIdsOf(db, conv, Tail(selected), seen)
          ELSE <<root>> \o rootIdsOf(db, conv, Tail(selected), seen \cup {root})

\* for (const nodeId of rootIds) await api.deleteNode(conversationId, nodeId)
RECURSIVE deleteEach(_, _, _, _)
deleteEach(db, conv, rootIds, log) ==
  IF rootIds = <<>> THEN [db |-> db, deletes |-> log]
  ELSE LET r == deleteNodeSubtreeRespectingJoins(db, conv, Head(rootIds))
       IN deleteEach(r.db, conv, Tail(rootIds),
                     Append(log, [root |-> Head(rootIds),
                                  deletedNodeIds |-> r.deletedNodeIds,
                                  edges |-> db.edges]))

\* handleConfirmDelete with the graph the canvas shows up to date.
ConfirmDelete(conv, selectedAnchorNodeIds) ==
  /\ selectedAnchorNodeIds # <<>>
  /\ \E r \in {deleteEach(DB, conv, rootIdsOf(DB, conv, selectedAnchorNodeIds, {}), <<>>)} :
       /\ Commit(r.db)
       /\ resp' = [NoResp EXCEPT !.op = "confirmDelete", !.conv = conv,
                                 !.status = 200, !.deletes = r.deletes]
  /\ UNCHANGED <<nextNode, nextMsg>>

\* A question sent from a draft of the canvas: fromNodeIds are anchors.
AskFromCanvas(conv, fromNodeIds) ==
  /\ nextNode + 1 <= MaxSelNodes
  /\ \E r \in {createMessageWithAI(DB, nextNode, nextMsg, conv, "q1", fromNodeIds,
                                   "answer", Null, NullRanges, FALSE)} :
       /\ Commit(r.db)
       /\ nextNode' = r.nextNode
       /\ nextMsg' = r.nextMsg
       /\ resp' = [NoResp EXCEPT !.op = "create", !.conv = conv, !.content = "q1",
                                 !.status = 201, !.outcome = "ok1", !.aiAttempts = 1,
                                 !.userNode = r.userNode, !.aiNode = r.aiNode,
                                 !.newNodes = r.newNodes, !.newEdges = r.newEdges]

\* The selections: distinct anchors in the order they were selected.
Selections(db, conv) ==
  UNION {{s \in [1..k -> anchorNodeIds(db, conv)] :
            \A i \in 1..k : \A j \in 1..k : i # j => s[i] # s[j]} : k \in 1..MaxSelected}

SelAsk ==
  \E conv \in Convs :
    \E F \in {G \in SUBSET anchorNodeIds(DB, conv) : Cardinality(G) <= MaxFrom} :
      AskFromCanvas(conv, F)

SelDelete ==
  \E conv \in Convs : \E selected \in Selections(DB, conv) : ConfirmDelete(conv, selected)

NextSel == SelAsk \/ SelDelete

SpecSel == Init /\ [][NextSel]_vars

\* ------------------------------------------------- graph vocabulary
\* The nodes reachable from the nodes of frontier along one or more edges.
RECURSIVE Reach(_, _, _)
Reach(E, frontier, seen) ==
  LET step == {e.target : e \in {x \in E : x.source \in frontier}} \ seen
  IN IF step = {} THEN seen ELSE Reach(E, step, seen \cup step)

Descendants(E, n) == Reach(E, {n}, {})
Parents(E, n) == {e.source : e \in {x \in E : x.target = n}}
Children(E, n) == {e.target : e \in {x \in E : x.source = n}}

\* The calls of deleteNodeSubtreeRespectingJoins the last command made.
DeleteCalls == {resp.deletes[i] : i \in DOMAIN resp.deletes}

\* No node of members had, when the call started, an incoming edge from a
\* node the call did not delete.
JoinPreserved(call, members) ==
  \A e \in call.edges :
    e.target \in members => e.source \in call.deletedNodeIds

\* ------------------------------------------------- C1
\* C1 as stated: join preservation for every member of deletedNodeIds, the
\* root included, in DeleteNode and in the deletions EditNode triggers.
C1_JoinPreservationEveryMember ==
  resp.op \in {"delete", "edit"} =>
    \A call \in DeleteCalls : JoinPreserved(call, call.deletedNodeIds)

\* C1 amended: every deleted node other than the root of its delete call
\* had no incoming edge from a node that call left in place; the root is
\* removed whatever its parents are.
C1_JoinPreservation ==
  resp.op \in {"delete", "edit"} =>
    \A call \in DeleteCalls :
      JoinPreserved(call, call.deletedNodeIds \ {call.root})

\* A delete that removed a descendant of its root and stopped at a join.
C1_Witness ==
  /\ resp.op = "delete"
  /\ \E call \in DeleteCalls :
       /\ Cardinality(call.deletedNodeIds) >= 2
       /\ \E e \in call.edges :
            e.source \in call.deletedNodeIds /\ e.target \notin call.deletedNodeIds

\* ------------------------------------------------- C2
\* C2: after DeleteNode(R) every descendant of R whose parents are all in
\* the delete set is in the delete set.
C2_DeletionComplete ==
  (resp.op = "delete" /\ resp.deletes[1].deletedNodeIds # {}) =>
    LET call == resp.deletes[1]
    IN \A d \in Descendants(call.edges, call.root) :
         Parents(call.edges, d) \subseteq call.deletedNodeIds
           => d \in call.deletedNodeIds

\* ------------------------------------------------- C3
\* The join graph A(1,user) -> B(2,ai) -> C(3,user) -> D(4,ai), E(5,user)
\* with edges from B and D, with or without E's own answer F(6).
JoinEdges ==
  {[conv |-> 1, source |-> 1, target |-> 2], [conv |-> 1, source |-> 2, target |-> 3],
   [conv |-> 1, source |-> 3, target |-> 4], [conv |-> 1, source |-> 2, target |-> 5],
   [conv |-> 1, source |-> 4, target |-> 5]}

AnswerOfE == [conv |-> 1, source |-> 5, target |-> 6]

IsJoinGraph ==
  /\ \/ DOMAIN nodes = 1..5 /\ edges = JoinEdges
     \/ DOMAIN nodes = 1..6 /\ edges = JoinEdges \cup {AnswerOfE}
  /\ \A n \in {1, 3, 5} : nodes[n].type = "user"
  /\ \A n \in {2, 4} : nodes[n].type = "ai"

DeletesB == resp'.op = "delete" /\ resp'.node = 2 /\ resp'.conv = 1

\* C3 as stated: in the join graph DeleteNode(B) deletes B and leaves both
\* D and E.
C3_DeleteB_LeavesDAndE ==
  [][(IsJoinGraph /\ DeletesB) =>
       /\ 2 \notin DOMAIN nodes'
       /\ {4, 5} \subseteq DOMAIN nodes']_vars

\* C3 amended: in the join graph DeleteNode(B) deletes B, C and D (C and D
\* are reached through in-degree 1) and leaves A and E; E, whose in-degree
\* was 2, stays.
C3_DeleteB ==
  [][(IsJoinGraph /\ DeletesB) =>
       /\ resp'.deletes[1].deletedNodeIds = {2, 3, 4}
       /\ DOMAIN nodes' \cap 1..5 = {1, 5}]_vars

\* DeleteNode(B) has run on the join graph.
C3_Witness ==
  /\ resp.op = "delete" /\ resp.node = 2
  /\ resp.deletes[1].edges \in {JoinEdges, JoinEdges \cup {AnswerOfE}}
  /\ 5 \in DOMAIN nodes /\ nodes[5].type = "user"
  /\ 1 \in DOMAIN nodes /\ nodes[1].type = "user"

\* ------------------------------------------------- C4
EditSucceeds == resp'.op = "edit" /\ resp'.status = 200

TextIs(ns, ms, n, content) ==
  /\ ns[n].label = content
  /\ ns[n].message_id \in DOMAIN ms => ms[ns[n].message_id].content = content

C8_AiNodeHasOneUserParent ==
  \A n \in DOMAIN nodes :
    nodes[n].type = "ai" =>
      /\ Cardinality({e \in edges : e.target = n}) = 1
      /\ \A e \in edges : e.target = n =>
           e.source \in DOMAIN nodes /\ nodes[e.source].type = "user"

\* ------------------------------------------------- C9
Acyclic(E) == \A e \in E : e.source \notin Descendants(E, e.source)

\* C9: the edge relation is acyclic, and every edge the last command
\* created has a node created by that command as its target.
C9_AcyclicByConstruction ==
  /\ Acyclic(edges)
  /\ \A e \in resp.newEdges : e.target \in resp.newNodes

\* An exchange that reused an existing node as its user node.
C9_Witness ==
  /\ resp.op = "create" /\ resp.status = 201
  /\ resp.userNode \notin resp.newNodes
  /\ Parents(edges, resp.userNode) # {}

\* ------------------------------------------------- C6
\* C6: the ContextRange array sent with a CreateExchange is what GetGraph
\* then returns for the created user node.
C6_ContextRangesRoundTrip ==
  (resp.op = "create" /\ resp.status = 201) =>
    getGraph(DB, resp.conv).nodes[resp.userNode].context_ranges = resp.reqRanges

\* ------------------------------------------------- C10
AiCommand == resp'.op \in {"create", "edit"} /\ resp'.status # 400

NewAiRows ==
  {n \in DOMAIN nodes' \ DOMAIN nodes : nodes'[n].type = "ai"}
  \cup {m \in DOMAIN messages' \ DOMAIN messages : messages'[m].author = "ai"}

IsBlock(n) == n.kind = "block"

\* text[s, e): the characters of text at the positions s .. e - 1.
Substring(text, s, e) ==
  IF s >= Len(text) \/ e <= s THEN <<>>
  ELSE SubSeq(text, s + 1, IF e <= Len(text) THEN e ELSE Len(text))

\* C5: every ContextRange serializeContent returns marks, in the text of
\* the same call, the quoted text of its block: one range a block, in the
\* blocks' order, with text[startPos, endPos) the block's text.
C5_SerializeRoundTrip ==
  ser.done =>
    LET blocks == SelectSeq(dom, IsBlock)
    IN /\ Len(ser.contextRanges) = Len(blocks)
       /\ \A i \in DOMAIN blocks :
            Substring(ser.text, ser.contextRanges[i].startPos,
                      ser.contextRanges[i].endPos) = blocks[i].text

\* ------------------------------------------------- C7
\* C7: the graph a getGraph returns is the graph at a command boundary:
\* for every command that wrote while it read, it shows none or all of
\* that command's writes.
C7_NoPartialObservation == obs.valid => obs.graph \in obs.cands

\* ------------------------------------------------- C11
\* The nodes from which a node of frontier is reachable along one or more
\* edges, and the seeds with them.
RECURSIVE ReachBack(_, _, _)
ReachBack(E, frontier, seen) ==
  LET step == {e.source : e \in {x \in E : x.target \in frontier}} \ seen
  IN IF step = {} THEN seen ELSE ReachBack(E, step, seen \cup step)

Ancestors(E, seedSet) == ReachBack(E, seedSet, seedSet)

\* The messages attached to the nodes of S that exist in the conversation.
MessagesOf(conv, S) ==
  {nodes[n].message_id : n \in S \cap fetchNodes(DB, conv)} \ {Null}

\* r is in ascending order of creation time.
Chronological(r) ==
  \A i \in DOMAIN r : \A j \in DOMAIN r :
    i < j => messages[r[i]].created_at <= messages[r[j]].created_at

\* The ancestors of the seeds of the last call, and their messages.
HistAncestors == Ancestors(fetchEdges(DB, hist.conv), Range(hist.seeds))
HistMessages == MessagesOf(hist.conv, HistAncestors)

\* C11: every message listMessagesForNodeAncestors returns is attached to
\* a node reachable backward (zero or more edges) from some seed, the
\* list is in ascending order of creation time, and it is no longer than
\* the limit.
C11_AncestorsSortedBounded ==
  hist.called =>
    /\ Range(hist.result) \subseteq HistMessages
    /\ Range(hist.result) \subseteq DOMAIN messages
    /\ Chronological(hist.result)
    /\ Len(hist.result) <= hist.limit

\* A call whose seed has ancestors and descendants, cut by the limit to
\* two messages, one of them of an ancestor that is not a seed.
C11_Witness ==
  /\ hist.called
  /\ Len(hist.seeds) = 1
  /\ Descendants(edges, hist.seeds[1]) # {}
  /\ Len(hist.result) = 2 /\ hist.limit = 2
  /\ Cardinality(HistMessages) > 2
  /\ \E i \in DOMAIN hist.result :
       hist.result[i] \in MessagesOf(hist.conv, HistAncestors \ Range(hist.seeds))

\* ------------------------------------------------- C12
\* The ancestors' messages the last call left out.
HistOmitted == HistMessages \ Range(hist.result)

\* C12: when the ancestors of the seeds carry more messages than the
\* limit, the result is exactly limit distinct messages of theirs in
\* chronological order, and none left out is more recent than one
\* returned.
C12_LatestNKept ==
  (hist.called /\ Cardinality(HistMessages) > hist.limit) =>
    /\ Len(hist.result) = hist.limit
    /\ Cardinality(Range(hist.result)) = hist.limit
    /\ Range(hist.result) \subseteq HistMessages
    /\ Chronological(hist.result)
    /\ \A o \in HistOmitted : \A i \in DOMAIN hist.result :
         messages[o].created_at <= messages[hist.result[i]].created_at

\* A call that leaves out a message strictly older than the two it returns.
C12_Witness ==
  /\ hist.called
  /\ hist.limit = 2
  /\ Cardinality(HistMessages) > 2
  /\ Len(hist.result) = 2
  /\ \E o \in HistOmitted : \A i \in DOMAIN hist.result :
       messages[o].created_at < messages[hist.result[i]].created_at

\* ------------------------------------------------- C13
\* The last call's result had it been given seeds instead.
HistWith(seeds) ==
  listMessagesForNodeAncestors(DB, hist.conv, seeds, hist.limit, hist.tie)

\* The seeds of the last call without those at the positions of skip.
RECURSIVE SeedsWithout(_, _)
SeedsWithout(seeds, skip) ==
  IF seeds = <<>> THEN <<>>
  ELSE LET n == Len(seeds)
           front == SeedsWithout(SubSeq(seeds, 1, n - 1), skip)
       IN IF n \in skip THEN front ELSE front \o <<seeds[n]>>

\* C13: the result is that of the seeds' set listed once in ascending
\* order, whatever the order and the repetitions of the list; a seed that
\* is an ancestor of another seed can be left out without changing it; no
\* message is returned twice; and in the join graph the seed E has the
\* ancestors A, B, C, D and E.
C13_SeedSetOnly ==
  hist.called =>
    /\ hist.seeds # SortedSeq(Range(hist.seeds))
         => hist.result = HistWith(SortedSeq(Range(hist.seeds)))
    /\ \A i \in DOMAIN hist.seeds :
         hist.seeds[i] \in Ancestors(fetchEdges(DB, hist.conv),
                                     Range(hist.seeds) \ {hist.seeds[i]})
           => hist.result = HistWith(SeedsWithout(hist.seeds, {i}))
    /\ Cardinality(Range(hist.result)) = Len(hist.result)
    /\ (IsJoinGraph /\ Range(hist.seeds) = {5}) =>
         /\ ancestorLoop(fetchEdges(DB, hist.conv), hist.seeds, {}) = 1..5
         /\ hist.limit = HistoryLimit => Range(hist.result) = MessagesOf(hist.conv, 1..5)

\* Two different seeds listed in descending order, the first a join node
\* and the second an ancestor of it.
C13_Witness ==
  /\ hist.called
  /\ Len(hist.seeds) = 2 /\ hist.seeds[1] > hist.seeds[2]
  /\ hist.limit = HistoryLimit
  /\ Cardinality(Parents(edges, hist.seeds[1])) = 2
  /\ hist.seeds[2] \in Ancestors(edges, {hist.seeds[1]})
  /\ Len(hist.result) >= 4

\* The join graph asked for the history of E.
C13_JoinWitness ==
  /\ hist.called /\ IsJoinGraph /\ hist.seeds = <<5, 5>> /\ hist.limit = HistoryLimit
  /\ Len(hist.result) = 5

\* ------------------------------------------------- C14
\* The chain A(1,user) -> B(2,ai) -> C(3,user) -> D(4,ai).
ChainEdges ==
  {[conv |-> 1, source |-> 1, target |-> 2], [conv |-> 1, source |-> 2, target |-> 3],
   [conv |-> 1, source |-> 3, target |-> 4]}

IsChainGraph ==
  /\ DOMAIN nodes = 1..4 /\ edges = ChainEdges
  /\ \A n \in {1, 3} : nodes[n].type = "user"
  /\ \A n \in {2, 4} : nodes[n].type = "ai"

\* The history of D was asked with the routes' limit.
HistoryOfD == hist.called /\ hist.conv = 1 /\ hist.seeds = <<4>> /\ hist.limit = HistoryLimit

\* C14: in the chain, the history of D with limit 20 is the four messages
\* of A, B, C and D, each once, in chronological order.
C14_ChainHistory ==
  (IsChainGraph /\ HistoryOfD) =>
    /\ Len(hist.result) = 4
    /\ Range(hist.result) = {nodes[n].message_id : n \in 1..4}
    /\ Null \notin Range(hist.result)
    /\ Chronological(hist.result)

\* The chain with the history of D returned, C's question stamped after
\* B's answer.
C14_Witness ==
  /\ IsChainGraph /\ HistoryOfD
  /\ Len(hist.result) = 4
  /\ messages[nodes[2].message_id].created_at < messages[nodes[3].message_id].created_at

\* ------------------------------------------------- C15
\* The positions of the last call's seeds that are not nodes of the
\* conversation.
AbsentSeeds ==
  {i \in DOMAIN hist.seeds : hist.seeds[i] \notin fetchNodes(DB, hist.conv)}

\* C15: the result is that of the seed list with the absent ids removed,
\* and is empty when no seed is left.
C15_AbsentSeedsIgnored ==
  hist.called =>
    /\ AbsentSeeds # {} => hist.result = HistWith(SeedsWithout(hist.seeds, AbsentSeeds))
    /\ AbsentSeeds = DOMAIN hist.seeds => hist.result = <<>>

\* An absent id listed before a node that has a message: the result is
\* not empty.
C15_Witness ==
  /\ hist.called
  /\ Len(hist.seeds) = 2
  /\ AbsentSeeds = {1}
  /\ hist.limit = HistoryLimit
  /\ Len(hist.result) >= 2

\* Only absent ids, in a conversation that has nodes.
C15_OnlyAbsentWitness ==
  /\ hist.called /\ nodes # <<>>
  /\ hist.seeds # <<>> /\ AbsentSeeds = DOMAIN hist.seeds
  /\ hist.result = <<>>

\* ------------------------------------------------- C16
\* The last call of findFreePositionAABB and the rectangle it gives the
\* new node.
Placed == place.phase = "placed"
NewRect ==
  [x |-> place.last.position.x, y |-> place.last.position.y,
   width |-> place.last.newNodeDimensions.width,
   height |-> place.last.newNodeDimensions.height]

\* a and b are at least gap apart on the x-axis, or on the y-axis.
SeparatedX(a, b, gap) == a.x + a.width + gap <= b.x \/ b.x + b.width + gap <= a.x
SeparatedY(a, b, gap) == a.y + a.height + gap <= b.y \/ b.y + b.height + gap <= a.y
Collide(a, b) == ~(SeparatedX(a, b, Px(40)) \/ SeparatedY(a, b, Px(40)))

\* The seven priority candidates of the last call, in their order: below,
\* below-right, below-left, further below, right, left, above.
PriorityRects ==
  LET p == place.last.parentRect
      w == place.last.newNodeDimensions.width
      h == place.last.newNodeDimensions.height
      below == p.y + p.height + Px(40)
      right == p.x + p.width + Px(40)
      left == p.x - w - Px(40)
      at(x, y) == [x |-> x, y |-> y, width |-> w, height |-> h]
  IN << at(p.x, below), at(right, below), at(left, below),
        at(p.x, below + h + Px(40)),
        at(right, p.y), at(left, p.y), at(p.x, p.y - h - Px(40)) >>

\* The priority candidates, and the spiral candidates, free in the last
\* call.
FreeOffsets ==
  {i \in DOMAIN PriorityRects :
     \A n \in place.last.existingNodes : ~Collide(PriorityRects[i], n)}
LastSpiralRect(ring, k) ==
  spiralRect(place.last.parentRect, place.last.newNodeDimensions.width,
             place.last.newNodeDimensions.height, ring, angles[k])
FreeSpiral ==
  {c \in (1..10) \X (1..8) :
     \A n \in place.last.existingNodes : ~Collide(LastSpiralRect(c[1], c[2]), n)}

\* C16: the rectangle of the returned position collides with no rectangle
\* of the occupied set the call was given.
C16_NoCollision ==
  Placed => \A n \in place.last.existingNodes : ~Collide(NewRect, n)

\* A position found on the spiral, next to occupied rectangles.
C16_Witness ==
  /\ Placed
  /\ FreeOffsets = {} /\ FreeSpiral # {}
  /\ Cardinality(place.last.existingNodes) >= 8

\* A position from a priority offset, and one from the ultimate fallback.
C16_OffsetWitness == Placed /\ FreeOffsets # {} /\ place.last.existingNodes # {}
C16_FallbackWitness == Placed /\ FreeOffsets = {} /\ FreeSpiral = {}

\* ------------------------------------------------- C17
\* C17: when a priority candidate is free, the position returned is that
\* of the first free one in the order below, below-right, below-left,
\* further below, right, left, above; with the parent (0,0,320,180), a
\* new node of 320x180 and the one occupied rectangle (0,220,320,180) it
\* is (360,220).
C17_FirstFreeOffset ==
  Placed =>
    /\ FreeOffsets # {} =>
         /\ place.last.position.x = PriorityRects[Min(FreeOffsets)].x
         /\ place.last.position.y = PriorityRects[Min(FreeOffsets)].y
    /\ ( /\ place.last.parentRect = Rect(0, 0, 320, 180)
         /\ place.last.newNodeDimensions = Dims(320, 180)
         /\ place.last.existingNodes = {Rect(0, 220, 320, 180)} )
         => place.last.position = [x |-> Px(360), y |-> Px(220)]

\* The example of the claim.
C17_Witness ==
  /\ Placed
  /\ place.last.parentRect = Rect(0, 0, 320, 180)
  /\ place.last.newNodeDimensions = Dims(320, 180)
  /\ place.last.existingNodes = {Rect(0, 220, 320, 180)}
  /\ FreeOffsets = 2..7

\* Only the last priority candidate, above, is free.
C17_AboveWitness == Placed /\ FreeOffsets = {7}

\* ------------------------------------------------- C18
\* The largest y + height over the occupied rectangles and the parent of
\* the last call.
LowestEdge ==
  MaxOf({n.y + n.height : n \in place.last.existingNodes \cup {place.last.parentRect}})

\* C18: when the seven priority candidates and the 80 spiral candidates
\* all collide, the position returned is x = parent.x and
\* y = LowestEdge + 2 * spacing.
C18_ExhaustionFallback ==
  (Placed /\ FreeOffsets = {} /\ FreeSpiral = {}) =>
    place.last.position = [x |-> place.last.parentRect.x, y |-> LowestEdge + 2 * Px(40)]

\* Every candidate collides, and an occupied rectangle ends below the
\* parent.
C18_Witness ==
  /\ Placed /\ FreeOffsets = {} /\ FreeSpiral = {}
  /\ LowestEdge > place.last.parentRect.y + place.last.parentRect.height
  /\ place.last.position.y = LowestEdge + Px(80)

\* ------------------------------------------------- C19
\* The tables of the three kinds of rows.
tables == <<nodes, edges, messages>>

\* C19: an edit answered with an error leaves every message, node and
\* edge as it was and creates nothing, and an edit answered otherwise was
\* of a node that existed in the conversation as a user node; so an edit
\* of an absent node or of a node that is not a user node is answered
\* with the error and changes nothing.
C19_EditRejected ==
  [][resp'.op = "edit" =>
       /\ resp'.status = 400 =>
            /\ UNCHANGED tables
            /\ UNCHANGED <<nextNode, nextMsg>>
            /\ resp'.deletes = <<>> /\ resp'.newNodes = {} /\ resp'.newEdges = {}
       /\ resp'.status # 400 =>
            /\ resp'.node \in DOMAIN nodes
            /\ nodes[resp'.node].conv = resp'.conv
            /\ nodes[resp'.node].type = "user"]_vars

\* An edit rejected in a conversation that has user nodes with answers.
C19_Witness ==
  /\ resp.op = "edit" /\ resp.status = 400
  /\ \E e \in edges : nodes[e.source].type = "user" /\ nodes[e.target].type = "ai"

\* ------------------------------------------------- C20
\* C20: a delete of an id that is not a node of the conversation returns
\* an empty deletedNodeIds and leaves every node, edge and message as it
\* was.
C20_DeleteAbsent ==
  [][(resp'.op = "delete" /\ resp'.node \notin fetchNodes(DB, resp'.conv)) =>
       /\ resp'.status = 200
       /\ \A i \in DOMAIN resp'.deletes : resp'.deletes[i].deletedNodeIds = {}
       /\ UNCHANGED tables]_vars

\* A delete that found nothing to delete, in a conversation that has nodes
\* and edges.
C20_Witness ==
  /\ resp.op = "delete" /\ resp.status = 200
  /\ resp.node \notin DOMAIN nodes
  /\ resp.deletes[1].deletedNodeIds = {}
  /\ nodes # <<>> /\ edges # {}

\* ------------------------------------------------- C21
\* The delete set the delete command of this step returned, and the
\* messages its nodes referenced before the step.
DeletedNow == UNION {resp'.deletes[i].deletedNodeIds : i \in DOMAIN resp'.deletes}
MessagesOfDeleted ==
  {nodes[n].message_id : n \in DeletedNow \cap DOMAIN nodes} \ {Null}

\* C21: after a delete no message a deleted node referenced is stored, no
\* edge has a deleted node as source or target, the deleted nodes are
\* gone, and every other node, message and edge between other nodes is
\* as it was.
C21_DeleteFrame ==
  [][resp'.op = "delete" =>
       /\ MessagesOfDeleted \cap DOMAIN messages' = {}
       /\ \A e \in edges' : e.source \notin DeletedNow /\ e.target \notin DeletedNow
       /\ DOMAIN nodes' = DOMAIN nodes \ DeletedNow
       /\ \A n \in DOMAIN nodes' : nodes'[n] = nodes[n]
       /\ DOMAIN messages' = DOMAIN messages \ MessagesOfDeleted
       /\ \A m \in DOMAIN messages' : messages'[m] = messages[m]
       /\ edges' = {e \in edges : e.source \notin DeletedNow /\ e.target \notin DeletedNow}
    ]_vars

\* A delete of two nodes or more that left a join node behind, with the
\* edge from its surviving parent and without the one from the deleted
\* parent.
C21_Witness ==
  /\ resp.op = "delete"
  /\ Cardinality(resp.deletes[1].deletedNodeIds) >= 2
  /\ \E e \in resp.deletes[1].edges :
       /\ e.source \in resp.deletes[1].deletedNodeIds
       /\ e.target \in DOMAIN nodes
       /\ \E f \in edges : f.target = e.target
  /\ messages # <<>>

\* ------------------------------------------------- C22
\* The context blocks of the editor's content.
BlocksInDom == {i \in DOMAIN dom : dom[i].kind = "block"}

\* C22: no entry id is inserted twice, the entries of the draft have ids
\* of their own, one entry an attach call, and the editor holds one block
\* an inserted entry: as many blocks as entries once the effect has run
\* on them all.
C22_InsertedOnce ==
  /\ \A i \in DOMAIN pend.inserted : \A j \in DOMAIN pend.inserted :
       i # j => pend.inserted[i] # pend.inserted[j]
  /\ \A i \in DOMAIN pend.pendingContexts : \A j \in DOMAIN pend.pendingContexts :
       i # j => pend.pendingContexts[i].id # pend.pendingContexts[j].id
  /\ Len(pend.pendingContexts) = pend.nextId - 1
  /\ Range(pend.inserted) = pend.processed
  /\ Cardinality(BlocksInDom) = Len(pend.inserted)
  /\ newContexts(pend.pendingContexts, pend.processed) = <<>>
       => Cardinality(BlocksInDom) = Len(pend.pendingContexts)

\* Two attach calls with the same text and source, inserted by two runs
\* of the effect: two entries and two blocks.
C22_Witness ==
  /\ Len(pend.pendingContexts) = 2
  /\ pend.pendingContexts[1].text = pend.pendingContexts[2].text
  /\ pend.pendingContexts[1].sourceNodeId = pend.pendingContexts[2].sourceNodeId
  /\ pend.inserted = <<1, 2>>
  /\ Cardinality(BlocksInDom) = 2
  /\ \E i \in DOMAIN dom : dom[i].kind = "text" /\ dom[i].text = <<"a">>
  /\ dom[1].kind = "block" /\ dom[2].kind = "block"

\* ------------------------------------------------- highlight vocabulary
\* The text of the bubble, spans included.
BubbleText(bubble) == join(pieceTexts(join(bubble)))

\* The offsets at which h occurs in text.
Occurrences(text, h) ==
  {i \in 0..(Len(text) - Len(h)) : SubSeq(text, i + 1, i + Len(h)) = h}

\* The offsets of the bubble's text that lie in a highlight span.
Marked(bubble) ==
  LET pieces == join(bubble)
      startOf(j) == Len(join(pieceTexts(SubSeq(pieces, 1, j - 1))))
  IN {p \in 0..(Len(BubbleText(bubble)) - 1) :
        \E j \in DOMAIN pieces :
          /\ pieces[j].mark
          /\ startOf(j) <= p
          /\ p < startOf(j) + Len(pieces[j].text)}

\* The step in which the highlight effect runs.
HighlightStep == loc.phase = "shown" /\ loc'.phase = "lit"

\* C23: when the quoted text occurs verbatim in the answer's text, the
\* search returns the span [start, end) of its first occurrence, the text
\* of the answer in that span is the quoted text, and exactly that span is
\* highlighted.
C23_ExactFirstOccurrence ==
  [][(HighlightStep
      /\ Occurrences(BubbleText(loc.bubble), loc'.highlightText) # {})
     => LET source == BubbleText(loc.bubble)
            h == loc'.highlightText
        IN /\ loc'.found
           /\ loc'.matchStart = Min(Occurrences(source, h))
           /\ loc'.matchEnd = loc'.matchStart + Len(h)
           /\ SubSeq(source, loc'.matchStart + 1, loc'.matchEnd) = h
           /\ BubbleText(loc'.bubble) = source
           /\ Marked(loc'.bubble) = loc'.matchStart..(loc'.matchEnd - 1)]_vars

\* The quoted text occurs at two offsets and the first occurrence is
\* highlighted across two text nodes.
C23_Witness ==
  /\ loc.phase = "lit"
  /\ loc.found
  /\ Cardinality(Occurrences(BubbleText(loc.bubble), loc.highlightText)) >= 2
  /\ Len(loc.bubble) = 2
  /\ \A k \in DOMAIN loc.bubble : \E j \in DOMAIN loc.bubble[k] : loc.bubble[k][j].mark
  /\ \E k \in DOMAIN loc.bubble : \E j \in DOMAIN loc.bubble[k] : ~loc.bubble[k][j].mark

\* C24: when the quoted text occurs in the answer's text neither verbatim
\* nor after both are white-space normalized, the search finds nothing: no
\* span is returned, nothing is highlighted and the bubble is left as it was.
C24_NotFoundNoOp ==
  [][(HighlightStep
      /\ Occurrences(BubbleText(loc.bubble), loc'.highlightText) = {}
      /\ Occurrences(normalizeWhitespace(BubbleText(loc.bubble)),
                     normalizeWhitespace(loc'.highlightText)) = {})
     => /\ ~loc'.found
        /\ loc'.matchStart = -1
        /\ loc'.bubble = loc.bubble
        /\ Marked(loc'.bubble) = {}]_vars

\* The quoted text "ab" is looked for in the answer "a b", in two text nodes:
\* nothing is found.
C24_Witness ==
  /\ loc.phase = "lit"
  /\ ~loc.found
  /\ loc.highlightText = <<"a", "b">>
  /\ BubbleText(loc.bubble) = <<"a", " ", "b">>
  /\ Len(loc.bubble) = 2

\* C29: when the quoted text does not occur verbatim in the answer's text
\* but its white-space-normalized form occurs in the normalized text, the
\* search returns a span [start, end) of the answer's text whose normalized
\* content is the normalized quoted text.
C29_NormalizedSpan ==
  [][(HighlightStep
      /\ Occurrences(BubbleText(loc.bubble), loc'.highlightText) = {}
      /\ Occurrences(normalizeWhitespace(BubbleText(loc.bubble)),
                     normalizeWhitespace(loc'.highlightText)) # {})
     => LET source == BubbleText(loc.bubble)
        IN /\ loc'.found
           /\ 0 <= loc'.matchStart
           /\ loc'.matchStart <= loc'.matchEnd
           /\ loc'.matchEnd <= Len(source)
           /\ normalizeWhitespace(SubSeq(source, loc'.matchStart + 1, loc'.matchEnd))
                = normalizeWhitespace(loc'.highlightText)]_vars

\* ------------------------------------------------- C25
\* The nodes reached from S along edges into nodes with exactly one
\* incoming edge in E.
RECURSIVE SoleParentReach(_, _)
SoleParentReach(E, S) ==
  LET step == {e.target : e \in {x \in E : x.source \in S
                                   /\ Cardinality({f \in E : f.target = x.target}) = 1}} \ S
  IN IF step = {} THEN S ELSE SoleParentReach(E, S \cup step)

\* C25: a delete of an existing root returns the root and every node
\* reached from it along a path whose nodes after the root have in-degree
\* exactly 1 before the delete, and no other node; so a leaf goes alone.
C25_DeleteSet ==
  [][(resp'.op = "delete" /\ resp'.node \in DOMAIN nodes)
     => LET del == resp'.deletes[1].deletedNodeIds
        IN /\ del = SoleParentReach(edges, {resp'.node})
           /\ resp'.node \in del
           /\ (\A e \in edges : e.source # resp'.node) => del = {resp'.node}
    ]_vars

\* In the chain 1 -> 2 -> 3 -> 4 the delete of 3 returned {3, 4}.
C25_Witness ==
  /\ resp.op = "delete" /\ resp.node = 3
  /\ {[source |-> e.source, target |-> e.target] : e \in resp.deletes[1].edges}
       = {[source |-> 1, target |-> 2], [source |-> 2, target |-> 3],
          [source |-> 3, target |-> 4]}
  /\ resp.deletes[1].deletedNodeIds = {3, 4}
  /\ DOMAIN nodes = {1, 2}

\* The delete of a root with two incoming edges returned the root and one
\* node below it.
C25_JoinRootWitness ==
  /\ resp.op = "delete"
  /\ Cardinality({e \in resp.deletes[1].edges : e.target = resp.node}) = 2
  /\ Cardinality(resp.deletes[1].deletedNodeIds) = 2

\* ------------------------------------------------- C26
\* The roots the confirmed delete of this step went through, in order.
RootsNow == [i \in DOMAIN resp'.deletes |-> resp'.deletes[i].root]

\* C26: when the selected roots are deleted one after the other, the nodes
\* and edges left are the same whatever the order of the roots.
C26_OrderIndependent ==
  [][resp'.op = "confirmDelete"
     => \A order \in Perms(Range(RootsNow)) :
          LET other == deleteEach(DB, resp'.conv, order, <<>>).db
          IN DOMAIN other.nodes = DOMAIN nodes' /\ other.edges = edges'
    ]_vars

\* ------------------------------------------------- C27
\* C27: an edit whose AI generation fails on both attempts (answer 500)
\* leaves the nodes, edges and messages as they were before the command:
\* the user node keeps its text and its answer and descendants stay.
C27_FailedEditLeavesGraph ==
  [][(resp'.op = "edit" /\ resp'.status = 500)
     => /\ nodes' = nodes
        /\ edges' = edges
        /\ messages' = messages
    ]_vars

\* ------------------------------------------------- C28
\* The key a drag of node is recorded under.
AnchorOf(node) == IF node.anchorNodeId # Null THEN node.anchorNodeId ELSE node.id

\* A step that leaves the conversation the canvas shows: the prop changes
\* or the canvas is unmounted.
LeavesConversation ==
  /\ saver.mounted
  /\ \/ ~saver'.mounted
     \/ saver'.conversationId # saver.conversationId

\* C28: a drag-stop sends nothing; of a committed node it records the
\* position under the node's anchor in place of an earlier one, of a draft
\* it records nothing. Leaving the conversation with pending positions
\* makes one call, addressed to the conversation left, with every pending
\* position, and empties the pending set; with none pending no call is made.
C28_PositionsCoalesced ==
  [][/\ (saver'.event = "drag" /\ saver.mounted /\ saver'.mounted) =>
          /\ saver'.calls = saver.calls
          /\ saver'.pendingPositionUpdates =
               IF saver'.node.mode = "complete"
               THEN [k \in DOMAIN saver.pendingPositionUpdates \cup {AnchorOf(saver'.node)} |->
                       IF k = AnchorOf(saver'.node) THEN saver'.position
                       ELSE saver.pendingPositionUpdates[k]]
               ELSE saver.pendingPositionUpdates
     /\ LeavesConversation =>
          /\ DOMAIN saver'.pendingPositionUpdates = {}
          /\ saver'.calls =
               IF DOMAIN saver.pendingPositionUpdates = {} THEN saver.calls
               ELSE Append(saver.calls,
                           [conversationId |-> saver.conversationId,
                            positions |-> saver.pendingPositionUpdates])
     /\ (~saver.mounted /\ saver'.mounted) =>
          /\ saver'.calls = saver.calls
          /\ DOMAIN saver'.pendingPositionUpdates = {}
    ]_vars

\* Conversation 1 was left for conversation 2 with the positions of both
\* anchors pending: one call, to conversation 1, with both positions.
C28_Witness ==
  /\ saver.event = "change"
  /\ saver.conversationId = 2
  /\ Len(saver.calls) = 1
  /\ saver.calls[1].conversationId = 1
  /\ DOMAIN saver.calls[1].positions = {2, 3}
  /\ saver.calls[1].positions[2] = [x |-> 1, y |-> 0]
  /\ DOMAIN saver.pendingPositionUpdates = {}

\* ------------------------------------------------- C30
\* The ids of a request's fromNodeIds that are not nodes of its
\* conversation: nodes of another conversation, or no nodes at all.
ForeignFrom ==
  {f \in resp.fromNodeIds : f \notin DOMAIN nodes \/ nodes[f].conv # resp.conv}

\* C30: the source and the target of every stored edge are nodes of the
\* edge's conversation, and a create whose fromNodeIds name nodes of
\* another conversation, or no nodes, has made no edge from them.
C30_EdgesWithinConversation ==
  /\ \A e \in edges :
       /\ e.source \in DOMAIN nodes /\ nodes[e.source].conv = e.conv
       /\ e.target \in DOMAIN nodes /\ nodes[e.target].conv = e.conv
  /\ (resp.op = "create" /\ resp.status = 201) =>
       /\ \A e \in edges :
            e.source \in ForeignFrom => e.conv # resp.conv /\ e.target # resp.userNode
       /\ \A e \in resp.newEdges : e.source \notin ForeignFrom

\* A question created in conversation 2 from a node of conversation 1 and
\* an id no node has: the new user node has no incoming edge.
C30_Witness ==
  /\ resp.op = "create" /\ resp.status = 201 /\ resp.conv = 2
  /\ \E f \in resp.fromNodeIds : f \in DOMAIN nodes /\ nodes[f].conv = 1
  /\ \E f \in resp.fromNodeIds : f \notin DOMAIN nodes
  /\ resp.userNode \in DOMAIN nodes
  /\ \A e \in edges : e.target # resp.userNode
  /\ \E e \in edges : e.source = resp.userNode /\ e.conv = 2
====
